---- MODULE Spec2Model ----
(***************************************************************************)
(* Verification model of the atomic swap engine of atomicDEX-API (mm2):    *)
(* the UTXO transaction generator, the HTLC script builder, the payment    *)
(* validator, the spend/refund engine and the UTXO lock discipline of      *)
(* mm2src/coins/utxo/utxo_common.rs and mm2src/coins/qrc20.rs.             *)
(*                                                                         *)
(* Byte strings are sequences of integers.  A script is kept in parsed     *)
(* form, a sequence of instructions [opcode, data]; its bytes are the      *)
(* concatenation of the opcode bytes and the pushed data.                  *)
(***************************************************************************)
EXTENDS Integers, Sequences, FiniteSets, TLC

VARIABLES
    gtx_args,       \* arguments of the generate_transaction call under study
    gtx_result      \* its GenerateTxResult, or the "pending" marker

VARIABLES
    negotiated,     \* the parameters both parties agreed on for one swap
    redeem          \* the redeem script each swap step has derived, per step

VARIABLES
    vp_args,        \* arguments of the validate_payment call under study
    vp_pc,          \* where the call stands: "fetch", "sleep" or "done"
    vp_attempts,    \* its local counter attempts
    vp_fetches,     \* the number of get_transaction_bytes requests it has sent
    vp_slept,       \* the seconds it has spent in Timer::sleep
    vp_reply,       \* the last reply of get_transaction_bytes
    vp_result       \* the result of the call

VARIABLES
    ss_args,        \* arguments of the search_for_swap_output_spend call under study
    ss_pc,          \* where the call stands: "start", "awaiting" or "done"
    ss_requests,    \* the find_output_spend requests it has sent to the RPC
    ss_reply,       \* the reply of find_output_spend
    ss_result       \* the result of the call

VARIABLES
    es_args,        \* arguments of the extract_secret call under study
    es_result       \* its result

VARIABLES
    vf_args,        \* arguments of the validate_fee call under study
    vf_pc,          \* where the call stands
    vf_tx_from_rpc, \* the reply of get_verbose_transaction
    vf_block_count, \* the reply of get_block_count
    vf_result       \* the result of the call

VARIABLES
    builds,                 \* the transaction builds under study: operation, position, unspents, selected inputs
    utxo_lock,              \* the build that holds UTXO_LOCK, 0 when it is free
    recently_spent_lock,    \* per coin, the build that holds recently_spent_outpoints, 0 when free
    recently_spent,         \* per coin, the content of recently_spent_outpoints
    rpc_utxos,              \* what list_unspent of the daemon answers for the address
    sent                    \* the transactions broadcast so far

VARIABLES
    swap_msgs,      \* SwapsContext.swap_msgs: the SwapMsgStore of each swap uuid that has one
    stats_db,       \* the swap statuses of the stats directory, per swap type and uuid
    p2p_out,        \* the messages handed to broadcast_p2p_msg
    my_swaps,       \* the swap records of the SWAPS/MY directory, per uuid
    ks_pc,          \* where swap_kick_starts stands: "start" or "done"
    ks_spawned,     \* the swaps swap_kick_starts has spawned a thread for
    ks_coins        \* the set of coins swap_kick_starts returns

VARIABLES
    now,            \* now_ms() / 1000
    ws_args,        \* arguments of the wait_for_output_spend call under study
    ws_pc,          \* where the call stands: "start", "query", "sleep" or "done"
    ws_timer,       \* the time its query was sent or its sleep began
    ws_result,      \* the result of the call
    ws_returned_at, \* the time it returned
    rm_args,        \* arguments of the recv_swap_msg call under study
    rm_pc,          \* where the call stands: "start", "sleep" or "done"
    rm_started,     \* its local started
    rm_timer,       \* the time its sleep began
    rm_result,      \* the result of the call
    rm_returned_at  \* the time it returned

VARIABLES
    pf_args,        \* arguments of the trade fee estimate under study
    pf_result,      \* the estimates for the two amounts
    hf_args,        \* the coin of the get_htlc_spend_fee call under study
    hf_result       \* its result

VARIABLES
    ci_args,        \* arguments of the calc_interest_if_required call under study
    ci_rpc,         \* the RPC requests the call has made
    ci_result       \* its result

VARIABLES
    hl_pc,          \* where process_history_loop stands: "load", "loop", "balance",
                    \* "request", "process", "sleep" or "stopped"
    hl_sleep,       \* the seconds of the Timer::sleep it is in
    hl_ctx_stopping,\* ctx.is_stopping()
    hl_coin_enabled,\* the coin is among the enabled coins
    hl_last,        \* the last answer of request_tx_history
    hl_io,          \* "ok", or the history file operation that failed
    hl_sync_state,  \* the coin's history_sync_state
    hl_my_balance,  \* its local my_balance
    hl_actual_balance, \* its local actual_balance
    hl_history_map, \* its local history_map: the block height per stored txid
    hl_tx_ids,      \* the (txid, height) pairs still to go through
    hl_left,        \* its local transactions_left
    hl_retries      \* how many Retry answers in a row it has seen

VARIABLES
    ks_active       \* the coins that are activated: those lp_coinfind finds

VARIABLES
    rf_args,        \* the HTLC to refund, the clock and the replies of the RPC
    rf_can,         \* what can_refund_htlc returned
    rf_tx           \* what send_taker_refunds_payment / send_maker_refunds_payment returned

VARIABLES
    rr_now,         \* the clock now_float reads
    rr_last_start,  \* RefreshedExternalResource::last_start
    rr_shelf,       \* RefreshedExternalResource::shelf
    rr_syncs,       \* the sync futures started so far, in the order of their start
    rr_tick,        \* what each thread inside tick has read
    rr_listeners,   \* RefreshedExternalResource::listeners
    rr_notified     \* the tasks that were notified

VARIABLES
    pm_call         \* the topic and the message of the process_msg call just made

VARIABLES
    lo_listed,      \* what the list_unspent request returns
    lo_cache,       \* the recently spent outpoints of the coin
    lo_result       \* what list_unspent_ordered returned

genVars == <<gtx_args, gtx_result>>
scriptVars == <<negotiated, redeem>>
vpVars == <<vp_args, vp_pc, vp_attempts, vp_fetches, vp_slept, vp_reply, vp_result>>
ssVars == <<ss_args, ss_pc, ss_requests, ss_reply, ss_result>>
esVars == <<es_args, es_result>>
vfVars == <<vf_args, vf_pc, vf_tx_from_rpc, vf_block_count, vf_result>>
buildVars == <<builds, utxo_lock, recently_spent_lock, recently_spent, rpc_utxos, sent>>

nodeVars == <<swap_msgs, stats_db, p2p_out, my_swaps, ks_pc, ks_spawned, ks_coins>>
wsVars == <<ws_args, ws_pc, ws_timer, ws_result, ws_returned_at>>
rmVars == <<rm_args, rm_pc, rm_started, rm_timer, rm_result, rm_returned_at>>
waitVars == <<now, wsVars, rmVars>>
pfVars == <<pf_args, pf_result>>
hfVars == <<hf_args, hf_result>>

ciVars == <<ci_args, ci_rpc, ci_result>>

coreVars == <<genVars, scriptVars, vpVars, ssVars, esVars, vfVars, buildVars>>
midVars == <<nodeVars, waitVars, pfVars, hfVars>>
hlVars == <<hl_pc, hl_sleep, hl_ctx_stopping, hl_coin_enabled, hl_last, hl_io, hl_sync_state,
           hl_my_balance, hl_actual_balance, hl_history_map, hl_tx_ids, hl_left, hl_retries>>
kaVars == <<ks_active>>
rfVars == <<rf_args, rf_can, rf_tx>>
rrVars == <<rr_now, rr_last_start, rr_shelf, rr_syncs, rr_tick, rr_listeners, rr_notified>>
pmVars == <<pm_call>>
loVars == <<lo_listed, lo_cache, lo_result>>
tailVars == <<rfVars, rrVars, pmVars, loVars>>
lateVars == <<ciVars, hlVars, kaVars, tailVars>>
extVars == <<midVars, lateVars>>

vars == <<coreVars, extVars>>

\* the variables a specification leaves alone
notGen == <<scriptVars, vpVars, ssVars, esVars, vfVars, buildVars, extVars>>
notScript == <<genVars, vpVars, ssVars, esVars, vfVars, buildVars, extVars>>
notVp == <<genVars, scriptVars, ssVars, esVars, vfVars, buildVars, extVars>>
notSs == <<genVars, scriptVars, vpVars, esVars, vfVars, buildVars, extVars>>
notEs == <<genVars, scriptVars, vpVars, ssVars, vfVars, buildVars, extVars>>
notVf == <<genVars, scriptVars, vpVars, ssVars, esVars, buildVars, extVars>>
notBuild == <<genVars, scriptVars, vpVars, ssVars, esVars, vfVars, extVars>>
notNode == <<coreVars, waitVars, pfVars, hfVars, lateVars>>
notWait == <<coreVars, pfVars, hfVars, lateVars>>
notPf == <<coreVars, nodeVars, waitVars, hfVars, lateVars>>
notHf == <<coreVars, nodeVars, waitVars, pfVars, lateVars>>
notCi == <<coreVars, midVars, hlVars, kaVars, tailVars>>
notHl == <<coreVars, midVars, ciVars, kaVars, tailVars>>
notKick == <<coreVars, waitVars, pfVars, hfVars, ciVars, hlVars, tailVars>>
notRf == <<coreVars, midVars, ciVars, hlVars, kaVars, rrVars, pmVars, loVars>>
notRr == <<coreVars, midVars, ciVars, hlVars, kaVars, rfVars, pmVars, loVars>>
notMsg == <<coreVars, waitVars, pfVars, hfVars, ciVars, hlVars, kaVars, rfVars, rrVars, loVars>>
notLo == <<coreVars, midVars, ciVars, hlVars, kaVars, rfVars, rrVars, pmVars>>

(***************************************************************************)
(* Bounds of the model                                                     *)
(***************************************************************************)
MaxUtxos == 3

(***************************************************************************)
(* Program constants                                                       *)
(***************************************************************************)
KILO_BYTE == 1024
P2PKH_OUTPUT_LEN == 34
MAX_DER_SIGNATURE_LEN == 72
COMPRESSED_PUBKEY_LEN == 33

OP_0 == 0
OP_PUSHBYTES_32 == 32
OP_PUSHBYTES_33 == 33
OP_PUSHBYTES_70 == 70
OP_PUSHBYTES_71 == 71
OP_PUSHBYTES_72 == 72
OP_PUSHBYTES_75 == 75
OP_PUSHDATA1 == 76
OP_1 == 81
OP_IF == 99
OP_ELSE == 103
OP_ENDIF == 104
OP_RETURN == 106
OP_DROP == 117
OP_DUP == 118
OP_SIZE == 130
OP_EQUAL == 135
OP_EQUALVERIFY == 136
OP_HASH160 == 169
OP_CHECKSIG == 172
OP_CHECKLOCKTIMEVERIFY == 177
OP_CALL == 194

(***************************************************************************)
(* Options and small helpers                                               *)
(***************************************************************************)
None == <<>>
Some(v) == <<v>>
IsSome(o) == o # <<>>
UnwrapOr(o, d) == IF o = <<>> THEN d ELSE o[1]

RECURSIVE SumSeq(_)
SumSeq(s) == IF s = <<>> THEN 0 ELSE Head(s) + SumSeq(Tail(s))


\* a byte string of n bytes, all equal to b
Bytes(n, b) == [i \in 1..n |-> b]

(***************************************************************************)
(* Script builder: push_opcode, push_data / push_bytes, and the bytes of   *)
(* a script                                                                *)
(***************************************************************************)
Op(opcode) == [opcode |-> opcode, data |-> <<>>]

\* Builder::push_data / push_bytes for data of at most 75 bytes: the opcode
\* is the length of the data (OP_PUSHBYTES_n), followed by the data
Push(data) ==
    IF Len(data) <= OP_PUSHBYTES_75
    THEN [opcode |-> Len(data), data |-> data]
    ELSE [opcode |-> OP_PUSHDATA1, data |-> data]

\* the bytes of one instruction: OP_PUSHDATA1 carries a length byte
InstructionBytes(instr) ==
    IF instr.opcode = OP_PUSHDATA1
    THEN <<instr.opcode, Len(instr.data)>> \o instr.data
    ELSE <<instr.opcode>> \o instr.data

RECURSIVE ScriptBytes(_)
ScriptBytes(script) ==
    IF script = <<>> THEN <<>>
    ELSE InstructionBytes(Head(script)) \o ScriptBytes(Tail(script))

ScriptLen(script) == Len(ScriptBytes(script))

\* dhash160 = ripemd160(sha256(x)): a 20 byte digest of a byte string.  The
\* digest is modelled by a position-weighted checksum of the input, summed
\* sixteen bytes at a time.
Weighted(bytes, i) == IF i <= Len(bytes) THEN i * (bytes[i] + 1) ELSE 0

Weighted4(bytes, i) ==
    Weighted(bytes, i) + Weighted(bytes, i + 1) + Weighted(bytes, i + 2) + Weighted(bytes, i + 3)

Weighted16(bytes, i) ==
    Weighted4(bytes, i) + Weighted4(bytes, i + 4) + Weighted4(bytes, i + 8) + Weighted4(bytes, i + 12)

RECURSIVE WeightedSum(_, _)
WeightedSum(bytes, i) ==
    IF i > Len(bytes) THEN 0 ELSE Weighted16(bytes, i) + WeightedSum(bytes, i + 16)

Digest20(sum) == [i \in 1..20 |-> IF i % 2 = 1 THEN sum % 251 ELSE (sum \div 251) % 241]

dhash160(bytes) ==
    CHOOSE h \in {Digest20(sum) : sum \in {WeightedSum(b, 1) : b \in {bytes}}} : TRUE

build_p2pkh(hash) ==
    <<Op(OP_DUP), Op(OP_HASH160), Push(hash), Op(OP_EQUALVERIFY), Op(OP_CHECKSIG)>>

build_p2sh(hash) == <<Op(OP_HASH160), Push(hash), Op(OP_EQUAL)>>

\* u32::to_le_bytes
to_le_bytes(n) == <<n % 256, (n \div 256) % 256, (n \div 65536) % 256, (n \div 16777216) % 256>>

\* Public::from_slice accepts 33 (compressed) and 65 (normal) bytes
PublicFromSliceOk(data) == Len(data) \in {33, 65}

payment_script(time_lock, secret_hash, pub_0, pub_1) ==
    <<Op(OP_IF),
      Push(to_le_bytes(time_lock)),
      Op(OP_CHECKLOCKTIMEVERIFY),
      Op(OP_DROP),
      Push(pub_0),
      Op(OP_CHECKSIG),
      Op(OP_ELSE),
      Op(OP_SIZE),
      Push(<<32>>),
      Op(OP_EQUALVERIFY),
      Op(OP_HASH160),
      Push(secret_hash),
      Op(OP_EQUALVERIFY),
      Push(pub_1),
      Op(OP_CHECKSIG),
      Op(OP_ENDIF)>>

\* Script::opcodes().next() == Some(Ok(OP_RETURN))
IsOpReturn(script) == script # <<>> /\ script[1].opcode = OP_RETURN

(***************************************************************************)
(* Transaction size                                                        *)
(***************************************************************************)
\* serialize(tx).len() of a transaction whose inputs carry no script_sig:
\* version 4, input count 1, 41 per input (outpoint 36, empty script 1,
\* sequence 4), output count 1, 9 + script per output, lock_time 4
SerializedLen(nInputs, outputs) ==
    10 + 41 * nInputs + SumSeq([i \in 1..Len(outputs) |-> 9 + ScriptLen(outputs[i].script_pubkey)])

tx_size_in_v_bytes(addr_format, nInputs, outputs) ==
    LET transaction_bytes_len == SerializedLen(nInputs, outputs)
        additional_len == 2 + MAX_DER_SIGNATURE_LEN + COMPRESSED_PUBKEY_LEN
    IN  IF addr_format = "Segwit"
        THEN LET base_size == transaction_bytes_len
                 total_size == transaction_bytes_len + 4 + nInputs * (additional_len + 1)
             IN  (3 * base_size + total_size) \div 4
        ELSE transaction_bytes_len + nInputs * additional_len

(***************************************************************************)
(* Transaction generator: generate_transaction, calc_interest_if_required  *)
(***************************************************************************)
NoTx == [inputs |-> <<>>, outputs |-> <<>>, lock_time |-> 0]
NoData == [fee_amount |-> 0, received_by_me |-> 0, spent_by_me |-> 0,
           unused_change |-> None, kmd_rewards |-> None]

GenErr_Swapped(name, a, b) == [status |-> name, tx |-> NoTx, data |-> NoData, info |-> <<b, a>>]

GenErr(name, a, b) == [status |-> name, tx |-> NoTx, data |-> NoData, info |-> <<a, b>>]
GenOk(tx, data) == [status |-> "Ok", tx |-> tx, data |-> data, info |-> <<0, 0>>]

\* (f * P2PKH_OUTPUT_LEN) / KILO_BYTE, the fee of a change output; only a
\* Dynamic fee is raised by it
ChangeOutputFee(coin_tx_fee) ==
    IF coin_tx_fee.kind = "Dynamic" THEN (coin_tx_fee.amount * P2PKH_OUTPUT_LEN) \div KILO_BYTE ELSE 0

\* the fee of the transaction with its first nInputs inputs and the
\* requested outputs
BaseTxFee(coin_tx_fee, addr_format, nInputs, outputs) ==
    LET v_size == tx_size_in_v_bytes(addr_format, nInputs, outputs)
    IN  IF coin_tx_fee.kind = "Dynamic"
        THEN (coin_tx_fee.amount * v_size) \div KILO_BYTE
        ELSE LET v_size_kb == IF v_size % KILO_BYTE = 0
                              THEN v_size \div KILO_BYTE
                              ELSE v_size \div KILO_BYTE + 1
             IN  coin_tx_fee.amount * v_size_kb

RaiseToRelayFee_Never(tx_fee, min_relay_fee) == tx_fee

RaiseToRelayFee(tx_fee, min_relay_fee) ==
    IF IsSome(min_relay_fee) /\ tx_fee < min_relay_fee[1] THEN min_relay_fee[1] ELSE tx_fee

\* every utxo is spent, whatever the inputs already cover
AddInputs_All(a, coin_tx_fee, min_relay_fee, sum_outputs_value, k, sum_inputs0, tx_fee0) ==
    [n |-> Len(a.utxos),
     sum_inputs |-> SumSeq([j \in 1..Len(a.utxos) |-> a.utxos[j].value]),
     tx_fee |-> RaiseToRelayFee(BaseTxFee(coin_tx_fee, a.coin.addr_format, Len(a.utxos), a.outputs),
                                min_relay_fee)]

\* the loop over the utxos: the k-th utxo is added to the inputs, the fee is
\* recomputed and the loop breaks when the fee policy is satisfied.  The
\* result is the number of inputs, their sum and the tx_fee left by the
\* last iteration.
RECURSIVE AddInputs(_, _, _, _, _, _, _)
AddInputs(a, coin_tx_fee, min_relay_fee, sum_outputs_value, k, sum_inputs0, tx_fee0) ==
    IF k > Len(a.utxos)
    THEN [n |-> Len(a.utxos), sum_inputs |-> sum_inputs0, tx_fee |-> tx_fee0]
    ELSE LET sum_inputs == sum_inputs0 + a.utxos[k].value
             tx_fee == BaseTxFee(coin_tx_fee, a.coin.addr_format, k, a.outputs)
             covered == IF a.fee_policy.kind = "SendExact"
                        THEN sum_outputs_value + tx_fee
                        ELSE sum_outputs_value
         IN  IF sum_inputs >= covered
             THEN LET change == sum_inputs - covered
                      with_change == IF change > a.coin.dust_amount
                                     THEN tx_fee + ChangeOutputFee(coin_tx_fee)
                                     ELSE tx_fee
                      final_fee == RaiseToRelayFee(with_change, min_relay_fee)
                      outputs_plus_fee == sum_outputs_value + final_fee
                  IN  IF a.fee_policy.kind = "SendExact" /\ sum_inputs < outputs_plus_fee
                      THEN AddInputs(a, coin_tx_fee, min_relay_fee, sum_outputs_value,
                                     k + 1, sum_inputs, final_fee)
                      ELSE [n |-> k, sum_inputs |-> sum_inputs, tx_fee |-> final_fee]
             ELSE AddInputs(a, coin_tx_fee, min_relay_fee, sum_outputs_value,
                            k + 1, sum_inputs, tx_fee)

\* index (from 1) of the first output paying to my_script_pub, 0 if none
RECURSIVE FindOutputTo(_, _, _)
FindOutputTo(outputs, my_script_pub, i) ==
    IF i > Len(outputs) THEN 0
    ELSE IF outputs[i].script_pubkey = my_script_pub THEN i
    ELSE FindOutputTo(outputs, my_script_pub, i + 1)

\* the hook claims a zero reward on every coin
calc_interest_if_required_AnyCoin(a, unsigned, data, my_script_pub) ==
    GenOk(unsigned, [data EXCEPT !.kmd_rewards = Some(0)])

\* the RPC requests calc_interest_if_required makes, in their order: none for
\* a coin other than KMD, else get_current_mtp and one
\* get_verbose_transaction per input, up to the first that fails
calc_interest_rpc_requests(a, unsigned) ==
    IF a.coin.ticker # "KMD" THEN <<>>
    ELSE IF ~IsSome(a.rpc_mtp) THEN <<"get_current_mtp">>
    ELSE IF unsigned.inputs # <<>> /\ ~IsSome(a.rpc_input_interest)
    THEN <<"get_current_mtp", "get_verbose_transaction">>
    ELSE <<"get_current_mtp">> \o [k \in 1..Len(unsigned.inputs) |-> "get_verbose_transaction"]

calc_interest_if_required(a, unsigned, data, my_script_pub) ==
    IF a.coin.ticker # "KMD" THEN GenOk(unsigned, data)
    ELSE IF ~IsSome(a.rpc_mtp) THEN GenErr("Rpc", 0, 0)
    ELSE IF unsigned.inputs # <<>> /\ ~IsSome(a.rpc_input_interest) THEN GenErr("Rpc", 0, 0)
    ELSE LET interest == Len(unsigned.inputs) * UnwrapOr(a.rpc_input_interest, 0)
             to_me == FindOutputTo(unsigned.outputs, my_script_pub, 1)
             outputs == IF interest = 0 THEN unsigned.outputs
                        ELSE IF to_me # 0
                        THEN [unsigned.outputs EXCEPT ![to_me].value = @ + interest]
                        ELSE Append(unsigned.outputs,
                                    [value |-> interest, script_pubkey |-> my_script_pub])
             lock_time == IF interest > 0 THEN a.rpc_mtp[1] ELSE a.now - 3600 + 777 * 2
         IN  GenOk([unsigned EXCEPT !.outputs = outputs, !.lock_time = lock_time],
                   [data EXCEPT !.received_by_me = @ + interest,
                                !.kmd_rewards = Some(interest)])

ReceivedByMe_Nothing(outputs, change_script_pubkey) == 0

\* sum of the values of the outputs paying to the change script
RECURSIVE ReceivedByMe(_, _)
ReceivedByMe(outputs, change_script_pubkey) ==
    IF outputs = <<>> THEN 0
    ELSE (IF Head(outputs).script_pubkey = change_script_pubkey THEN Head(outputs).value ELSE 0)
         + ReceivedByMe(Tail(outputs), change_script_pubkey)

\* the outputs below dust that are not OP_RETURN outputs
DustOutputs(outputs, dust) ==
    {i \in 1..Len(outputs) : ~IsOpReturn(outputs[i].script_pubkey) /\ outputs[i].value < dust}

\* a leftover that is not worth a change output is reported as unused_change
UnusedChange_Dropped(change, dust) == None

UnusedChange(change, dust) ==
    IF change > dust THEN None
    ELSE IF change > 0 THEN Some(change) ELSE None

generate_transaction(a) ==
    LET dust == a.coin.dust_amount
        change_script_pubkey == build_p2pkh(a.coin.my_address_hash)
        coin_tx_fee == IF IsSome(a.fee) THEN a.fee ELSE a.coin.rpc_tx_fee
        outputs_value == SumSeq([i \in 1..Len(a.outputs) |-> a.outputs[i].value])
        sum_outputs_value == outputs_value + UnwrapOr(a.gas_fee, 0)
        min_relay_fee == IF a.coin.force_min_relay_fee THEN a.coin.rpc_relay_fee ELSE None
    IN  IF ~IsSome(coin_tx_fee) THEN GenErr("Rpc", 0, 0)
        ELSE IF a.outputs = <<>> THEN GenErr("EmptyOutputs", 0, 0)
        ELSE IF DustOutputs(a.outputs, dust) # {}
        THEN LET i == CHOOSE i \in DustOutputs(a.outputs, dust) :
                         \A j \in DustOutputs(a.outputs, dust) : i <= j
             IN  GenErr("OutputValueLessThanDust", a.outputs[i].value, dust)
        ELSE IF a.utxos = <<>> THEN GenErr("EmptyUtxoSet", sum_outputs_value, 0)
        ELSE IF a.coin.force_min_relay_fee /\ ~IsSome(a.coin.rpc_relay_fee) THEN GenErr("Rpc", 0, 0)
        ELSE
        LET l == AddInputs(a, coin_tx_fee[1], min_relay_fee, sum_outputs_value, 1, 0, 0)
            inputs == [k \in 1..l.n |-> [previous_output |-> a.utxos[k].outpoint,
                                          amount |-> a.utxos[k].value]]
            i == a.fee_policy.idx + 1
            deduct == a.fee_policy.kind = "DeductFromOutput"
        IN  IF deduct /\ i > Len(a.outputs) THEN GenErr("Panic", 0, 0)
            ELSE IF deduct /\ a.outputs[i].value < l.tx_fee + dust
            THEN GenErr("DeductFeeFromOutputFailed", a.outputs[i].value, l.tx_fee + dust)
            ELSE
            LET outputs1 == IF deduct THEN [a.outputs EXCEPT ![i].value = @ - l.tx_fee]
                            ELSE a.outputs
                required == IF deduct THEN sum_outputs_value ELSE sum_outputs_value + l.tx_fee
            IN  IF l.sum_inputs < required THEN GenErr("NotEnoughUtxos", l.sum_inputs, required)
                ELSE
                LET change == l.sum_inputs - required
                    outputs2 == IF change > dust
                                THEN Append(outputs1, [value |-> change,
                                                       script_pubkey |-> change_script_pubkey])
                                ELSE outputs1
                    unused_change == UnusedChange(change, dust)
                    data == [fee_amount |-> l.tx_fee,
                             received_by_me |-> ReceivedByMe(outputs2, change_script_pubkey),
                             spent_by_me |-> l.sum_inputs,
                             unused_change |-> unused_change,
                             kmd_rewards |-> None]
                    tx == [inputs |-> inputs, outputs |-> outputs2, lock_time |-> a.now]
                IN  calc_interest_if_required(a, tx, data, change_script_pubkey)

(***************************************************************************)
(* Idle values of the variables a specification does not use               *)
(***************************************************************************)
GenIdle == gtx_args = None /\ gtx_result = None
ScriptIdle == negotiated = None /\ redeem = None
VpIdle ==
    /\ vp_args = None /\ vp_pc = "idle" /\ vp_attempts = 0 /\ vp_fetches = 0
    /\ vp_slept = 0 /\ vp_reply = None /\ vp_result = "Idle"
SsIdle ==
    /\ ss_args = None /\ ss_pc = "idle" /\ ss_requests = <<>> /\ ss_reply = None
    /\ ss_result = "Idle"
BuildIdle ==
    /\ builds = <<>> /\ utxo_lock = 0 /\ recently_spent_lock = <<>> /\ recently_spent = <<>>
    /\ rpc_utxos = {} /\ sent = {}
EsIdle == es_args = None /\ es_result = None
VfIdle ==
    /\ vf_args = None /\ vf_pc = "idle" /\ vf_tx_from_rpc = None /\ vf_block_count = None
    /\ vf_result = "Idle"
NodeIdle ==
    /\ swap_msgs = <<>> /\ stats_db = <<>> /\ p2p_out = {} /\ my_swaps = <<>>
    /\ ks_pc = "idle" /\ ks_spawned = {} /\ ks_coins = {}
WsIdle ==
    /\ ws_args = None /\ ws_pc = "idle" /\ ws_timer = 0 /\ ws_result = "Idle"
    /\ ws_returned_at = None
RmIdle ==
    /\ rm_args = None /\ rm_pc = "idle" /\ rm_started = 0 /\ rm_timer = 0
    /\ rm_result = "Idle" /\ rm_returned_at = None
WaitIdle == now = 0 /\ WsIdle /\ RmIdle
PfIdle == pf_args = None /\ pf_result = None
HfIdle == hf_args = None /\ hf_result = None
CiIdle == ci_args = None /\ ci_rpc = <<>> /\ ci_result = None
CoreIdle == GenIdle /\ ScriptIdle /\ VpIdle /\ SsIdle /\ EsIdle /\ VfIdle /\ BuildIdle
MidIdle == NodeIdle /\ WaitIdle /\ PfIdle /\ HfIdle
HlIdle ==
    /\ hl_pc = "idle" /\ hl_sleep = 0 /\ hl_ctx_stopping = FALSE /\ hl_coin_enabled = FALSE
    /\ hl_last = "None" /\ hl_io = "ok" /\ hl_sync_state = "NotStarted"
    /\ hl_my_balance = None /\ hl_actual_balance = None /\ hl_history_map = <<>>
    /\ hl_tx_ids = <<>> /\ hl_left = 0 /\ hl_retries = 0
KaIdle == ks_active = {}
RfIdle == rf_args = None /\ rf_can = None /\ rf_tx = None
RrThreads == {1, 2}
RrIdle ==
    /\ rr_now = 0 /\ rr_last_start = 0 /\ rr_shelf = None /\ rr_syncs = <<>>
    /\ rr_tick = [t \in RrThreads |-> None] /\ rr_listeners = {} /\ rr_notified = {}
PmIdle == pm_call = None
LoIdle == lo_listed = {} /\ lo_cache = {} /\ lo_result = None
TailIdle == RfIdle /\ RrIdle /\ PmIdle /\ LoIdle
LateIdle == CiIdle /\ HlIdle /\ KaIdle /\ TailIdle
ExtIdle == MidIdle /\ LateIdle

(***************************************************************************)
(* Specification SpecGen: one generate_transaction call on arguments drawn *)
(* from bounded sets                                                       *)
(***************************************************************************)
DustAmount == 5
MyAddressHash == Bytes(20, 1)
OtherAddressHash == Bytes(20, 2)
MyScriptPubkey == build_p2pkh(MyAddressHash)
OtherScriptPubkey == build_p2pkh(OtherAddressHash)
OpReturnScript == <<Op(OP_RETURN), Push(Bytes(20, 9))>>

Dynamic(f) == [kind |-> "Dynamic", amount |-> f]
FixedPerKb(f) == [kind |-> "FixedPerKb", amount |-> f]
SendExact == [kind |-> "SendExact", idx |-> 0]
DeductFromOutput(i) == [kind |-> "DeductFromOutput", idx |-> i]

UtxoValues == {20, 50}

\* the unspents as list_unspent_ordered returns them: ascending by value
UtxoLists ==
    UNION {{[k \in 1..n |-> [outpoint |-> k, value |-> v[k]]] :
               v \in {w \in [1..n -> UtxoValues] : \A k \in 1..(n - 1) : w[k] <= w[k + 1]}} :
           n \in 0..MaxUtxos}

Out(value, script) == [value |-> value, script_pubkey |-> script]

OutputLists ==
    LET first == {Out(3, OtherScriptPubkey), Out(25, OtherScriptPubkey),
                  Out(45, OtherScriptPubkey), Out(25, MyScriptPubkey)}
    IN  {<<>>} \cup {<<f>> : f \in first} \cup {<<f, Out(0, OpReturnScript)>> : f \in first}

GenCoin(ticker, fmt, force, relay, rpc_fee) ==
    [ticker |-> ticker, dust_amount |-> DustAmount, my_address_hash |-> MyAddressHash,
     addr_format |-> fmt, force_min_relay_fee |-> force, rpc_relay_fee |-> relay,
     rpc_tx_fee |-> rpc_fee]

GenCall(coin, utxos, outputs, policy, fee, gas, mtp, interest) ==
    [coin |-> coin, utxos |-> utxos, outputs |-> outputs, fee_policy |-> policy,
     fee |-> fee, gas_fee |-> gas, now |-> 10000, rpc_mtp |-> mtp,
     rpc_input_interest |-> interest]

\* calls in which every RPC request succeeds
GenCallsRpcOk ==
    {GenCall(GenCoin(t[1], fmt, force, Some(15), Some(Dynamic(64))), u, o, p, fee, gas,
             Some(9000), Some(t[2])) :
        t \in {<<"BTC", 0>>, <<"KMD", 0>>, <<"KMD", 2>>},
        fmt \in {"Standard", "Segwit"},
        force \in BOOLEAN,
        u \in UtxoLists,
        o \in OutputLists,
        p \in {SendExact, DeductFromOutput(0), DeductFromOutput(1)},
        fee \in {None, Some(FixedPerKb(7))},
        gas \in {None, Some(4)}}

\* calls in which one RPC request fails: the fee estimate, the relay fee,
\* the median time past or a verbose transaction
GenCallsRpcErr ==
    {GenCall(GenCoin(f[1], "Standard", f[2], f[3], f[4]), u, o, SendExact, None, None, f[5], f[6]) :
        f \in {<<"BTC", FALSE, None, None, None, None>>,
               <<"BTC", TRUE, None, Some(Dynamic(64)), None, None>>,
               <<"KMD", FALSE, None, Some(Dynamic(64)), None, Some(2)>>,
               <<"KMD", FALSE, None, Some(Dynamic(64)), Some(9000), None>>},
        u \in UtxoLists,
        o \in OutputLists}

GenCalls == GenCallsRpcOk \cup GenCallsRpcErr

GenPending == GenErr("Pending", 0, 0)

\* atomic swap payment spend transaction size, in bytes
SWAP_TX_SPEND_SIZE == 305

HtlcFeeErr(name) == [status |-> name, fee |-> 0]
HtlcFeeOk(fee) == [status |-> "Ok", fee |-> fee]

get_htlc_spend_fee(coin) ==
    IF ~IsSome(coin.rpc_tx_fee) THEN HtlcFeeErr("Rpc")
    ELSE LET coin_fee == coin.rpc_tx_fee[1]
             fee == IF coin_fee.kind = "Dynamic"
                    THEN (coin_fee.amount * SWAP_TX_SPEND_SIZE) \div KILO_BYTE
                    ELSE coin_fee.amount
         IN  IF ~coin.force_min_relay_fee THEN HtlcFeeOk(fee)
             ELSE IF ~IsSome(coin.rpc_relay_fee) THEN HtlcFeeErr("Rpc")
             ELSE IF fee < coin.rpc_relay_fee[1] THEN HtlcFeeOk(coin.rpc_relay_fee[1])
             ELSE HtlcFeeOk(fee)

\* the coin of the call, its fee setting the one the call uses
HtlcCoin(a) == [a.coin EXCEPT !.rpc_tx_fee = IF IsSome(a.fee) THEN a.fee ELSE @]

InitGen ==
    /\ gtx_args \in GenCalls
    /\ gtx_result = GenPending
    /\ hf_args = Some(HtlcCoin(gtx_args))
    /\ hf_result = None
    /\ ScriptIdle /\ VpIdle /\ SsIdle /\ EsIdle /\ VfIdle /\ BuildIdle
    /\ NodeIdle /\ WaitIdle /\ PfIdle /\ LateIdle

GenerateTransaction ==
    /\ gtx_result = GenPending
    /\ gtx_result' = generate_transaction(gtx_args)
    /\ UNCHANGED gtx_args
    /\ UNCHANGED notGen

GetHtlcSpendFee ==
    /\ hf_result = None
    /\ hf_result' = Some(get_htlc_spend_fee(hf_args[1]))
    /\ UNCHANGED hf_args
    /\ UNCHANGED notHf

NextGen == GenerateTransaction \/ GetHtlcSpendFee

SpecGen == InitGen /\ [][NextGen]_vars

(***************************************************************************)
(* Properties of the transaction generator                                 *)
(***************************************************************************)
InputsValue(res) == SumSeq([i \in 1..Len(res.tx.inputs) |-> res.tx.inputs[i].amount])
OutputsValue(res) == SumSeq([i \in 1..Len(res.tx.outputs) |-> res.tx.outputs[i].value])

\* C1 as stated: a successful result balances, the inputs are worth the
\* outputs plus fee_amount plus the unused change
C1_Conservation ==
    gtx_result.status = "Ok" =>
        InputsValue(gtx_result)
            = OutputsValue(gtx_result) + gtx_result.data.fee_amount
              + UnwrapOr(gtx_result.data.unused_change, 0)

\* C1 amended: the inputs plus the KMD interest claimed by the transaction are
\* worth the outputs plus fee_amount plus the gas fee of the contract calls
\* plus the unused change
C1_ConservationWithGasAndInterest ==
    gtx_result.status = "Ok" =>
        InputsValue(gtx_result) + UnwrapOr(gtx_result.data.kmd_rewards, 0)
            = OutputsValue(gtx_result) + gtx_result.data.fee_amount
              + UnwrapOr(gtx_args.gas_fee, 0)
              + UnwrapOr(gtx_result.data.unused_change, 0)

C1_Witness ==
    /\ gtx_result.status = "Ok"
    /\ Len(gtx_result.tx.inputs) >= 2
    /\ IsSome(gtx_result.data.unused_change)
    /\ IsSome(gtx_args.gas_fee)
    /\ UnwrapOr(gtx_result.data.kmd_rewards, 0) > 0

\* C10: no successful result holds a non-OP_RETURN output below dust, and a
\* call whose fee is known and that asks for such an output fails with
\* OutputValueLessThanDust
C10_DustInvariant ==
    /\ gtx_result.status = "Ok" =>
           DustOutputs(gtx_result.tx.outputs, gtx_args.coin.dust_amount) = {}
    /\ (gtx_result.status \notin {"Pending", "Rpc"}
        /\ DustOutputs(gtx_args.outputs, gtx_args.coin.dust_amount) # {})
           => gtx_result.status = "OutputValueLessThanDust"

(***************************************************************************)
(* HTLC redeem scripts as each swap step derives them                      *)
(***************************************************************************)
\* 33 byte compressed public keys and 32 byte secrets
Pub(b) == <<2>> \o Bytes(32, b)
Secret(b) == Bytes(32, b)

\* generate_swap_payment_outputs (send_maker_payment, send_taker_payment):
\* the sender's key comes first
swap_payment_redeem_script(my_pub, time_lock, other_pub, secret_hash) ==
    payment_script(time_lock, secret_hash, my_pub, other_pub)

generate_swap_payment_outputs(my_pub, ticker, time_lock, other_pub, secret_hash, amount) ==
    LET redeem_script == swap_payment_redeem_script(my_pub, time_lock, other_pub, secret_hash)
        redeem_script_hash == dhash160(ScriptBytes(redeem_script))
        htlc_out == [value |-> amount, script_pubkey |-> build_p2sh(redeem_script_hash)]
        op_return_script == IF ticker = "ARRR"
                            THEN <<Op(OP_RETURN), Push(ScriptBytes(redeem_script))>>
                            ELSE <<Op(OP_RETURN), Push(secret_hash)>>
        op_return_out == [value |-> 0, script_pubkey |-> op_return_script]
    IN  <<htlc_out, op_return_out>>

\* validate_maker_payment / validate_taker_payment: the key received from the
\* sender comes first, the validator's own key second
validate_payment_swapped_redeem_script(my_public, time_lock, sender_pub, priv_bn_hash) ==
    payment_script(time_lock, priv_bn_hash, my_public, sender_pub)

validate_maker_payment_redeem_script(my_public, time_lock, maker_pub, priv_bn_hash) ==
    payment_script(time_lock, priv_bn_hash, maker_pub, my_public)

validate_taker_payment_redeem_script(my_public, time_lock, taker_pub, priv_bn_hash) ==
    payment_script(time_lock, priv_bn_hash, taker_pub, my_public)

\* send_taker_spends_maker_payment / send_maker_spends_taker_payment: the
\* secret hash is recomputed from the secret
send_taker_spends_maker_payment_redeem_script(my_pub, time_lock, maker_pub, secret) ==
    payment_script(time_lock, dhash160(secret), maker_pub, my_pub)

send_maker_spends_taker_payment_redeem_script(my_pub, time_lock, taker_pub, secret) ==
    payment_script(time_lock, dhash160(secret), taker_pub, my_pub)

\* send_maker_refunds_payment / send_taker_refunds_payment
send_maker_refunds_payment_redeem_script(my_pub, time_lock, taker_pub, secret_hash) ==
    payment_script(time_lock, secret_hash, my_pub, taker_pub)

send_taker_refunds_payment_redeem_script(my_pub, time_lock, maker_pub, secret_hash) ==
    payment_script(time_lock, secret_hash, my_pub, maker_pub)

(***************************************************************************)
(* Specification SpecScript: the steps of one swap, each deriving the      *)
(* redeem script of the maker payment or of the taker payment              *)
(***************************************************************************)
Steps == {"send_maker_payment", "validate_maker_payment", "send_taker_spends_maker_payment",
          "send_maker_refunds_payment", "send_taker_payment", "validate_taker_payment",
          "send_maker_spends_taker_payment", "send_taker_refunds_payment"}

MakerPaymentSteps == {"send_maker_payment", "validate_maker_payment",
                      "send_taker_spends_maker_payment", "send_maker_refunds_payment"}
TakerPaymentSteps == Steps \ MakerPaymentSteps

Negotiations ==
    {[maker_payment_lock |-> t + 15600, taker_payment_lock |-> t + 7800, secret |-> Secret(x),
      secret_hash |-> dhash160(Secret(x)), maker_pub |-> Pub(k[1]), taker_pub |-> Pub(k[2])] :
        t \in {70000, 1600000000}, x \in {5, 6}, k \in {<<11, 12>>, <<12, 11>>, <<11, 13>>}}

InitScript ==
    /\ negotiated \in Negotiations
    /\ redeem = [st \in Steps |-> None]
    /\ GenIdle /\ VpIdle /\ SsIdle /\ EsIdle /\ VfIdle /\ BuildIdle /\ ExtIdle

\* the step st derives the redeem script script
Derive(st, script) ==
    /\ redeem[st] = None
    /\ redeem' = [redeem EXCEPT ![st] = Some(script)]
    /\ UNCHANGED negotiated
    /\ UNCHANGED notScript

SendMakerPayment ==
    Derive("send_maker_payment",
           swap_payment_redeem_script(negotiated.maker_pub, negotiated.maker_payment_lock,
                                      negotiated.taker_pub, negotiated.secret_hash))

ValidateMakerPayment ==
    /\ IsSome(redeem["send_maker_payment"])
    /\ Derive("validate_maker_payment",
              validate_maker_payment_redeem_script(negotiated.taker_pub,
                  negotiated.maker_payment_lock, negotiated.maker_pub, negotiated.secret_hash))

SendTakerSpendsMakerPayment ==
    /\ IsSome(redeem["send_maker_payment"])
    /\ redeem["send_maker_refunds_payment"] = None
    /\ Derive("send_taker_spends_maker_payment",
              send_taker_spends_maker_payment_redeem_script(negotiated.taker_pub,
                  negotiated.maker_payment_lock, negotiated.maker_pub, negotiated.secret))

SendMakerRefundsPayment ==
    /\ IsSome(redeem["send_maker_payment"])
    /\ redeem["send_taker_spends_maker_payment"] = None
    /\ Derive("send_maker_refunds_payment",
              send_maker_refunds_payment_redeem_script(negotiated.maker_pub,
                  negotiated.maker_payment_lock, negotiated.taker_pub, negotiated.secret_hash))

SendTakerPayment ==
    Derive("send_taker_payment",
           swap_payment_redeem_script(negotiated.taker_pub, negotiated.taker_payment_lock,
                                      negotiated.maker_pub, negotiated.secret_hash))

ValidateTakerPayment ==
    /\ IsSome(redeem["send_taker_payment"])
    /\ Derive("validate_taker_payment",
              validate_taker_payment_redeem_script(negotiated.maker_pub,
                  negotiated.taker_payment_lock, negotiated.taker_pub, negotiated.secret_hash))

SendMakerSpendsTakerPayment ==
    /\ IsSome(redeem["send_taker_payment"])
    /\ redeem["send_taker_refunds_payment"] = None
    /\ Derive("send_maker_spends_taker_payment",
              send_maker_spends_taker_payment_redeem_script(negotiated.maker_pub,
                  negotiated.taker_payment_lock, negotiated.taker_pub, negotiated.secret))

SendTakerRefundsPayment ==
    /\ IsSome(redeem["send_taker_payment"])
    /\ redeem["send_maker_spends_taker_payment"] = None
    /\ Derive("send_taker_refunds_payment",
              send_taker_refunds_payment_redeem_script(negotiated.taker_pub,
                  negotiated.taker_payment_lock, negotiated.maker_pub, negotiated.secret_hash))

NextScript ==
    \/ SendMakerPayment
    \/ ValidateMakerPayment
    \/ SendTakerSpendsMakerPayment
    \/ SendMakerRefundsPayment
    \/ SendTakerPayment
    \/ ValidateTakerPayment
    \/ SendMakerSpendsTakerPayment
    \/ SendTakerRefundsPayment

SpecScript == InitScript /\ [][NextScript]_vars

\* C7: the steps that have derived the redeem script of the same payment hold
\* byte-identical scripts
C7_ByteIdenticalScripts ==
    \A steps \in {MakerPaymentSteps, TakerPaymentSteps} :
        \A a, b \in steps :
            (IsSome(redeem[a]) /\ IsSome(redeem[b]))
                => ScriptBytes(redeem[a][1]) = ScriptBytes(redeem[b][1])

C7_Witness ==
    /\ IsSome(redeem["send_maker_payment"])
    /\ IsSome(redeem["validate_maker_payment"])
    /\ IsSome(redeem["send_taker_spends_maker_payment"])
    /\ IsSome(redeem["send_taker_payment"])
    /\ IsSome(redeem["validate_taker_payment"])
    /\ IsSome(redeem["send_taker_refunds_payment"])

(***************************************************************************)
(* Transactions and their serialization                                    *)
(***************************************************************************)
\* a transaction input; the sequence is kept as its 4 little endian bytes
TxInput(previous_output, script_sig, sequence, script_witness) ==
    [previous_output |-> previous_output, script_sig |-> script_sig,
     sequence |-> sequence, script_witness |-> script_witness]

Tx(inputs, outputs, lock_time) == [inputs |-> inputs, outputs |-> outputs, lock_time |-> lock_time]

HasWitness(tx) == \E i \in 1..Len(tx.inputs) : tx.inputs[i].script_witness # <<>>

\* what both serializations hold: everything but the witnesses
TxBody(tx) ==
    [inputs |-> [i \in 1..Len(tx.inputs) |->
                    [previous_output |-> tx.inputs[i].previous_output,
                     script_sig |-> ScriptBytes(tx.inputs[i].script_sig),
                     sequence |-> tx.inputs[i].sequence]],
     outputs |-> [i \in 1..Len(tx.outputs) |->
                    [value |-> tx.outputs[i].value,
                     script_pubkey |-> ScriptBytes(tx.outputs[i].script_pubkey)]],
     lock_time |-> tx.lock_time]

\* serialize(&tx): the legacy form, without marker, flag and witnesses
serialize(tx) == [flag |-> 0, body |-> TxBody(tx), witnesses |-> <<>>]

\* serialize_with_flags(&tx, SERIALIZE_TRANSACTION_WITNESS): marker, flag and
\* the witness of every input when some input has a witness, else as legacy
serialize_with_flags(tx) ==
    IF HasWitness(tx)
    THEN [flag |-> 1, body |-> TxBody(tx),
          witnesses |-> [i \in 1..Len(tx.inputs) |-> tx.inputs[i].script_witness]]
    ELSE serialize(tx)

(***************************************************************************)
(* Payment validator: validate_payment                                     *)
(***************************************************************************)
\* tx.outputs.get(output_index) != Some(&expected_output); output_index
\* counts from 0
OutputDiffers_ScriptOnly(outputs, output_index, expected_output) ==
    \/ output_index + 1 > Len(outputs)
    \/ outputs[output_index + 1].script_pubkey # expected_output.script_pubkey

OutputDiffers(outputs, output_index, expected_output) ==
    \/ output_index + 1 > Len(outputs)
    \/ outputs[output_index + 1] # expected_output

\* the checks of validate_payment once the transaction bytes are fetched
validate_payment_checks(a, tx_from_rpc) ==
    LET expected_redeem == payment_script(a.time_lock, a.priv_bn_hash, a.first_pub0, a.second_pub0)
        expected_output == [value |-> a.amount,
                            script_pubkey |-> build_p2sh(dhash160(ScriptBytes(expected_redeem)))]
    IN  IF serialize(a.tx) # tx_from_rpc /\ serialize_with_flags(a.tx) # tx_from_rpc
        THEN "ErrTxMismatch"
        ELSE IF OutputDiffers(a.tx.outputs, a.output_index, expected_output)
        THEN "ErrOutputMismatch"
        ELSE "Ok"

(***************************************************************************)
(* Specification SpecVp: one validate_payment call, the replies of the RPC *)
(* chosen freely                                                           *)
(***************************************************************************)
SEQUENCE_FINAL == <<255, 255, 255, 255>>

\* a 71 byte DER signature followed by the sighash type
Sig(b) == <<48>> \o Bytes(69, b) \o <<1>>

\* inputs spending a P2PKH output of the key Pub(k): legacy or segwit
P2pkhInput(outpoint, k) ==
    TxInput(outpoint, <<Push(Sig(k)), Push(Pub(k))>>, SEQUENCE_FINAL, <<>>)
P2wpkhInput(outpoint, k) ==
    TxInput(outpoint, <<>>, SEQUENCE_FINAL, <<Sig(k), Pub(k)>>)

VpAmount == 30

\* the payments a sender may have published: the agreed one and payments
\* that differ from it in one parameter or in the layout of the outputs
VpOutputLists ==
    LET agreed == generate_swap_payment_outputs(Pub(11), "BTC", 70000, Pub(12),
                                                dhash160(Secret(5)), VpAmount)
    IN  {generate_swap_payment_outputs(Pub(k[1]), "BTC", t, Pub(k[2]), dhash160(Secret(x)), v) :
            k \in {<<11, 12>>, <<12, 11>>}, t \in {70000, 70001}, x \in {5, 6},
            v \in {VpAmount - 1, VpAmount, VpAmount + 1}}
        \cup {generate_swap_payment_outputs(Pub(11), "ARRR", 70000, Pub(12),
                                            dhash160(Secret(5)), VpAmount),
              <<>>, <<agreed[2], agreed[1]>>, <<agreed[1]>>,
              <<agreed[1], agreed[2], Out(7, MyScriptPubkey)>>}

VpTxs ==
    {Tx(<<i>>, o, 0) : i \in {P2pkhInput(1, 11), P2wpkhInput(1, 11)}, o \in VpOutputLists}

VpCalls ==
    {[tx |-> tx, output_index |-> i, first_pub0 |-> Pub(11), second_pub0 |-> Pub(12),
      priv_bn_hash |-> dhash160(Secret(5)), amount |-> VpAmount, time_lock |-> 70000] :
        tx \in VpTxs, i \in {0, 1}}

\* what get_transaction_bytes may answer for the hash of tx: an error, the
\* transaction in one of its two forms, or the bytes of another transaction
VpReplies(tx) ==
    {None, Some(serialize(tx)), Some(serialize_with_flags(tx)),
     Some(serialize(Tx(tx.inputs, <<Out(VpAmount, MyScriptPubkey)>>, 0)))}

InitVp ==
    /\ vp_args \in VpCalls
    /\ vp_pc = "fetch"
    /\ vp_attempts = 0
    /\ vp_fetches = 0
    /\ vp_slept = 0
    /\ vp_reply = None
    /\ vp_result = "Pending"
    /\ GenIdle /\ ScriptIdle /\ SsIdle /\ EsIdle /\ VfIdle /\ BuildIdle /\ ExtIdle

\* get_transaction_bytes fails: give up when attempts > 2, else count the
\* attempt and go to sleep
VpFetchFails ==
    /\ vp_pc = "fetch"
    /\ vp_fetches' = vp_fetches + 1
    /\ vp_reply' = None
    /\ IF vp_attempts > 2
       THEN /\ vp_result' = "ErrRpc"
            /\ vp_pc' = "done"
            /\ UNCHANGED vp_attempts
       ELSE /\ vp_attempts' = vp_attempts + 1
            /\ vp_pc' = "sleep"
            /\ UNCHANGED vp_result
    /\ UNCHANGED <<vp_args, vp_slept>>
    /\ UNCHANGED notVp

\* Timer::sleep(10.) is over: continue with the next fetch
VpSleep ==
    /\ vp_pc = "sleep"
    /\ vp_slept' = vp_slept + 10
    /\ vp_pc' = "fetch"
    /\ UNCHANGED <<vp_args, vp_attempts, vp_fetches, vp_reply, vp_result>>
    /\ UNCHANGED notVp

\* get_transaction_bytes answers: the transaction is validated at once
VpFetchSucceeds ==
    /\ vp_pc = "fetch"
    /\ \E bytes \in VpReplies(vp_args.tx) \ {None} :
          /\ vp_reply' = bytes
          /\ vp_result' = validate_payment_checks(vp_args, bytes[1])
    /\ vp_fetches' = vp_fetches + 1
    /\ vp_pc' = "done"
    /\ UNCHANGED <<vp_args, vp_attempts, vp_slept>>
    /\ UNCHANGED notVp

NextVp ==
    \/ VpFetchFails
    \/ VpFetchSucceeds
    \/ VpSleep

SpecVp == InitVp /\ [][NextVp]_vars

\* the P2SH output of the redeem script of the agreed parameters
VpAgreedOutput(a) ==
    [value |-> a.amount,
     script_pubkey |->
        build_p2sh(dhash160(ScriptBytes(
            payment_script(a.time_lock, a.priv_bn_hash, a.first_pub0, a.second_pub0))))]

VpBytesMatch ==
    /\ IsSome(vp_reply)
    /\ vp_reply[1] \in {serialize(vp_args.tx), serialize_with_flags(vp_args.tx)}

VpOutputMatches ==
    /\ vp_args.output_index + 1 <= Len(vp_args.tx.outputs)
    /\ vp_args.tx.outputs[vp_args.output_index + 1].value = vp_args.amount
    /\ vp_args.tx.outputs[vp_args.output_index + 1].script_pubkey
           = VpAgreedOutput(vp_args).script_pubkey

\* C4: validate_payment returns Ok only if the fetched bytes are the local
\* transaction in legacy or witness form and the output at output_index is
\* the P2SH output of the recomputed redeem script with the agreed amount;
\* any mismatch of bytes, script hash or value is an error
C4_ValidatePaymentOkOnlyIfMatch ==
    vp_pc = "done" =>
        /\ vp_result = "Ok" <=> (VpBytesMatch /\ VpOutputMatches)
        /\ (IsSome(vp_reply) /\ ~VpBytesMatch) => vp_result = "ErrTxMismatch"
        /\ (VpBytesMatch /\ ~VpOutputMatches) => vp_result = "ErrOutputMismatch"

C4_Witness ==
    /\ vp_pc = "done"
    /\ vp_result = "Ok"
    /\ vp_attempts > 0
    /\ vp_reply[1].flag = 1

(***************************************************************************)
(* Spend/refund engine: p2sh_spend, search_for_swap_output_spend           *)
(***************************************************************************)
\* a push instruction whose data is shorter or longer than its opcode says
\* does not parse
InstructionOk(instr) == instr.opcode \in 1..OP_PUSHBYTES_75 => Len(instr.data) = instr.opcode

\* Script::get_instruction(position) and Script::iter().nth(position);
\* position counts from 0
get_instruction(script, position) ==
    IF position + 1 <= Len(script) THEN Some(script[position + 1]) ELSE None

\* Some(Ok(i)) with i.opcode == opcode
InstructionIs(script, position, opcode) ==
    LET i == get_instruction(script, position)
    IN  IsSome(i) /\ InstructionOk(i[1]) /\ i[1].opcode = opcode

\* the hash of a transaction: a digest of its inputs, outputs and lock time,
\* every script entering by its own digest
RECURSIVE OutputsBytes(_)
OutputsBytes(outputs) ==
    IF outputs = <<>> THEN <<>>
    ELSE <<Head(outputs).value>> \o dhash160(ScriptBytes(Head(outputs).script_pubkey))
         \o OutputsBytes(Tail(outputs))

RECURSIVE InputsBytes(_)
InputsBytes(inputs) ==
    IF inputs = <<>> THEN <<>>
    ELSE Head(inputs).previous_output.hash \o <<Head(inputs).previous_output.index>>
         \o dhash160(ScriptBytes(Head(inputs).script_sig)) \o InputsBytes(Tail(inputs))

tx_hash(tx) == dhash160(InputsBytes(tx.inputs) \o OutputsBytes(tx.outputs) \o <<tx.lock_time % 256>>)

OutPoint(hash, index) == [hash |-> hash, index |-> index]

\* the script_sig p2sh_spend builds: the signature, the script data and the
\* redeem script
p2sh_spend_script_sig(sig, script_data, redeem_script) ==
    <<Push(sig)>> \o script_data \o <<Push(ScriptBytes(redeem_script))>>

\* the classification of a found spending transaction by the script_sig of
\* its input 0
ClassifySpend(spend) ==
    IF spend.inputs = <<>> THEN "Panic"
    ELSE LET script == spend.inputs[1].script_sig
         IN  IF InstructionIs(script, 2, OP_0) THEN "Spent"
             ELSE IF InstructionIs(script, 1, OP_1) THEN "Refunded"
             ELSE "ErrNoInstruction"

\* the part of search_for_swap_output_spend that precedes the RPC request:
\* "Search" when the request is to be sent, else the result of the call
search_precheck(a) ==
    IF ~IsSome(a.tx) THEN "ErrDeserialize"
    ELSE LET tx == a.tx[1]
             script == payment_script(a.time_lock, a.secret_hash, a.first_pub, a.second_pub)
             expected_script_pubkey == build_p2sh(dhash160(ScriptBytes(script)))
         IN  IF tx.outputs = <<>> THEN "Panic"
             ELSE IF tx.outputs[1].script_pubkey # expected_script_pubkey
             THEN "ErrScriptPubkey"
             ELSE "Search"

\* the arguments search_for_swap_tx_spend_my and search_for_swap_tx_spend_other
\* hand to search_for_swap_output_spend: the keys in their two orders
search_for_swap_tx_spend_my(a) ==
    [time_lock |-> a.time_lock, first_pub |-> a.my_public, second_pub |-> a.other_pub,
     secret_hash |-> a.secret_hash, tx |-> a.tx, output_index |-> a.output_index,
     search_from_block |-> a.search_from_block]

search_for_swap_tx_spend_other(a) ==
    [time_lock |-> a.time_lock, first_pub |-> a.other_pub, second_pub |-> a.my_public,
     secret_hash |-> a.secret_hash, tx |-> a.tx, output_index |-> a.output_index,
     search_from_block |-> a.search_from_block]

SearchArgs(a) ==
    IF a.side = "my" THEN search_for_swap_tx_spend_my(a) ELSE search_for_swap_tx_spend_other(a)

(***************************************************************************)
(* Specification SpecSearch: one call of search_for_swap_tx_spend_my or    *)
(* search_for_swap_tx_spend_other and the reply of find_output_spend       *)
(***************************************************************************)
SsAmount == 30
SsTimeLock == 70000
FundingOutPoint == OutPoint(Bytes(20, 1), 0)
UnrelatedOutPoint == OutPoint(Bytes(20, 9), 1)

\* the redeem script of the payment searched for: Pub(11) sent it to Pub(12)
SsRedeemScript == payment_script(SsTimeLock, dhash160(Secret(5)), Pub(11), Pub(12))

\* the candidate payments: the agreed one, one with two HTLC outputs, one with
\* the outputs in the other order, one of another time lock, one without
\* outputs
SsOutputLists ==
    LET agreed(v) == generate_swap_payment_outputs(Pub(11), "BTC", SsTimeLock, Pub(12),
                                                   dhash160(Secret(5)), v)
    IN  UNION {{agreed(v), <<agreed(v)[1], agreed(v)[1]>>, <<agreed(v)[2], agreed(v)[1]>>,
                generate_swap_payment_outputs(Pub(11), "BTC", SsTimeLock + 1, Pub(12),
                                              dhash160(Secret(5)), v)} :
               v \in {SsAmount, SsAmount + 1}}
        \cup {<<>>}

SsTxs == {Tx(<<P2pkhInput(FundingOutPoint, 11)>>, o, 0) : o \in SsOutputLists}

SsCalls ==
    {[side |-> side, my_public |-> Pub(pk[1]), other_pub |-> pk[2], time_lock |-> SsTimeLock,
      secret_hash |-> dhash160(Secret(5)), tx |-> tx, output_index |-> i,
      search_from_block |-> b] :
        side \in {"my", "other"}, pk \in {<<11, Pub(12)>>, <<12, Pub(11)>>, <<11, Bytes(20, 12)>>},
        tx \in {None} \cup {Some(t) : t \in SsTxs}, i \in {0, 1}, b \in {0, 100}}

\* the script data of the transactions that spend an HTLC output: the claim
\* with the secret, the refund, and script data of neither form
SsScriptData == {<<Push(Secret(5)), Op(OP_0)>>, <<Op(OP_1)>>, <<>>, <<Push(Secret(5))>>}

\* the transactions that spend the output vout of tx, alone or together with
\* an unrelated P2PKH input
SpendsOf(tx, vout) ==
    IF vout + 1 > Len(tx.outputs) \/ IsOpReturn(tx.outputs[vout + 1].script_pubkey) THEN {}
    ELSE LET htlc(d) == TxInput(OutPoint(tx_hash(tx), vout),
                                p2sh_spend_script_sig(Sig(12), d, SsRedeemScript),
                                SEQUENCE_FINAL, <<>>)
             other == P2pkhInput(UnrelatedOutPoint, 12)
         IN  {Tx(ins, <<Out(tx.outputs[vout + 1].value - 1, OtherScriptPubkey)>>, 0) :
                ins \in UNION {{<<htlc(d)>>, <<htlc(d), other>>, <<other, htlc(d)>>} :
                               d \in SsScriptData}}

\* what find_output_spend may answer
FindOutputSpendReplies(tx, vout) ==
    {[status |-> "Err", tx |-> None], [status |-> "Ok", tx |-> None]}
    \cup {[status |-> "Ok", tx |-> Some(s)] : s \in SpendsOf(tx, vout)}

InitSearch ==
    /\ ss_args \in {Some(c) : c \in SsCalls}
    /\ ss_pc = "start"
    /\ ss_requests = <<>>
    /\ ss_reply = None
    /\ ss_result = "Pending"
    /\ GenIdle /\ ScriptIdle /\ VpIdle /\ EsIdle /\ VfIdle /\ BuildIdle /\ ExtIdle

\* search_for_swap_tx_spend_my / _other up to the find_output_spend request
SearchStart ==
    /\ ss_pc = "start"
    /\ LET c == ss_args[1]
       IN  IF ~PublicFromSliceOk(c.other_pub)
           THEN /\ ss_pc' = "done" /\ ss_result' = "ErrPublic"
                /\ UNCHANGED ss_requests
           ELSE LET a == SearchArgs(c)
                    r == search_precheck(a)
                IN  IF r = "Search"
                    THEN /\ ss_pc' = "awaiting"
                         /\ ss_requests' = Append(ss_requests,
                                [tx |-> a.tx[1], output_index |-> a.output_index,
                                 from_block |-> a.search_from_block])
                         /\ UNCHANGED ss_result
                    ELSE /\ ss_pc' = "done" /\ ss_result' = r
                         /\ UNCHANGED ss_requests
    /\ UNCHANGED <<ss_args, ss_reply>>
    /\ UNCHANGED notSs

\* the answer of find_output_spend and the classification of the spend
SearchReply ==
    /\ ss_pc = "awaiting"
    /\ \E r \in FindOutputSpendReplies(ss_requests[1].tx, ss_requests[1].output_index) :
        /\ ss_reply' = Some(r)
        /\ ss_result' = IF r.status = "Err" THEN "ErrRpc"
                        ELSE IF r.tx = None THEN "None"
                        ELSE ClassifySpend(r.tx[1])
    /\ ss_pc' = "done"
    /\ UNCHANGED <<ss_args, ss_requests>>
    /\ UNCHANGED notSs

NextSearch == SearchStart \/ SearchReply

SpecSearch == InitSearch /\ [][NextSearch]_vars

\* the input of the found transaction that spends the output searched for
SpendingInput(spend, request) ==
    CHOOSE j \in 1..Len(spend.inputs) :
        spend.inputs[j].previous_output = OutPoint(tx_hash(request.tx), request.output_index)

\* C5: a found spend is classified from the script of the input that spends
\* the HTLC output: OP_0 at position 2 gives Spent, OP_1 at position 1 gives
\* Refunded, anything else is an error; no spend found gives None
C5_ClassifiedFromSpendingInput ==
    (ss_pc = "done" /\ IsSome(ss_reply) /\ ss_reply[1].status = "Ok") =>
        IF ss_reply[1].tx = None THEN ss_result = "None"
        ELSE LET spend == ss_reply[1].tx[1]
                 script == spend.inputs[SpendingInput(spend, ss_requests[1])].script_sig
             IN  ss_result = IF InstructionIs(script, 2, OP_0) THEN "Spent"
                             ELSE IF InstructionIs(script, 1, OP_1) THEN "Refunded"
                             ELSE "ErrNoInstruction"

\* C9: find_output_spend is asked only once the output at output_index of the
\* candidate transaction is known to carry the P2SH script of the redeem
\* script, and a mismatch of that output ends the call with an error
C9_SearchOnlyAfterOutputCheck ==
    ss_pc # "start" /\ ss_result # "ErrPublic" /\ ss_result # "ErrDeserialize" =>
        LET a == SearchArgs(ss_args[1])
            tx == a.tx[1]
            expected == build_p2sh(dhash160(ScriptBytes(
                            payment_script(a.time_lock, a.secret_hash, a.first_pub, a.second_pub))))
            matches == /\ a.output_index + 1 <= Len(tx.outputs)
                       /\ tx.outputs[a.output_index + 1].script_pubkey = expected
        IN  /\ ss_requests # <<>> => matches
            /\ ~matches => ss_requests = <<>> /\ ss_result \in {"ErrScriptPubkey", "Panic"}

(***************************************************************************)
(* extract_secret                                                          *)
(***************************************************************************)
\* the secret one input yields, if any, with the hash check left out
SecretOfInput_AnyHash(input, secret_hash) ==
    LET i == get_instruction(input.script_sig, 1)
    IN  IF ~IsSome(i) THEN None
        ELSE IF ~InstructionOk(i[1]) THEN None
        ELSE IF i[1].opcode # OP_PUSHBYTES_32 THEN None
        ELSE Some(i[1].data)

\* the body of the loop of extract_secret: the secret one input yields, if
\* any; the loop goes on to the next input on None
SecretOfInput(input, secret_hash) ==
    LET i == get_instruction(input.script_sig, 1)
    IN  IF ~IsSome(i) THEN None
        ELSE IF ~InstructionOk(i[1]) THEN None
        ELSE IF i[1].opcode # OP_PUSHBYTES_32 THEN None
        ELSE IF dhash160(i[1].data) # secret_hash THEN None
        ELSE Some(i[1].data)

RECURSIVE ExtractFromInputs(_, _, _)
ExtractFromInputs(secret_hash, inputs, k) ==
    IF k > Len(inputs) THEN [status |-> "ErrCouldntExtractSecret", secret |-> <<>>]
    ELSE LET found == SecretOfInput(inputs[k], secret_hash)
         IN  IF IsSome(found) THEN [status |-> "Ok", secret |-> found[1]]
             ELSE ExtractFromInputs(secret_hash, inputs, k + 1)

\* spend_tx is None when the bytes do not deserialize
extract_secret(secret_hash, spend_tx) ==
    IF ~IsSome(spend_tx) THEN [status |-> "ErrDeserialize", secret |-> <<>>]
    ELSE ExtractFromInputs(secret_hash, spend_tx[1].inputs, 1)

(***************************************************************************)
(* Specification SpecSecret: one call of extract_secret                    *)
(***************************************************************************)
\* the inputs a spending transaction may hold: claims built by p2sh_spend
\* with script_data = push(secret) + OP_0, a refund, a P2PKH input, and
\* script signatures that carry the secret elsewhere or damaged
EsInputs ==
    {TxInput(UnrelatedOutPoint, sc, SEQUENCE_FINAL, <<>>) : sc \in
        {p2sh_spend_script_sig(Sig(12), <<Push(Secret(5)), Op(OP_0)>>, SsRedeemScript),
         p2sh_spend_script_sig(Sig(12), <<Push(Secret(6)), Op(OP_0)>>, SsRedeemScript),
         p2sh_spend_script_sig(Sig(11), <<Op(OP_1)>>, SsRedeemScript),
         <<Push(Sig(12)), Push(Pub(12))>>,
         <<Push(Secret(5)), Push(Sig(12))>>,
         <<Push(Sig(12)), Op(OP_0), Push(Secret(5))>>,
         <<Push(Sig(12)), [opcode |-> OP_PUSHBYTES_32, data |-> Bytes(5, 5)]>>,
         <<Push(Sig(12)), Push(Bytes(20, 5)), Op(OP_0)>>,
         <<>>}}

EsTxs ==
    {Tx(<<i>>, <<Out(SsAmount - 1, OtherScriptPubkey)>>, 0) : i \in EsInputs}
    \cup {Tx(<<i, j>>, <<Out(SsAmount - 1, OtherScriptPubkey)>>, 0) : i \in EsInputs, j \in EsInputs}

EsCalls ==
    {[secret_hash |-> dhash160(Secret(x)), spend_tx |-> t] :
        x \in {5, 6}, t \in {None} \cup {Some(tx) : tx \in EsTxs}}

InitSecret ==
    /\ es_args \in {Some(c) : c \in EsCalls}
    /\ es_result = None
    /\ GenIdle /\ ScriptIdle /\ VpIdle /\ SsIdle /\ VfIdle /\ BuildIdle /\ ExtIdle

ExtractSecret ==
    /\ es_result = None
    /\ es_result' = Some(extract_secret(es_args[1].secret_hash, es_args[1].spend_tx))
    /\ UNCHANGED es_args
    /\ UNCHANGED notEs

NextSecret == ExtractSecret

SpecSecret == InitSecret /\ [][NextSecret]_vars

\* the positions of script at which a well-formed 32 byte push sits whose
\* dhash160 is secret_hash
SecretPushes(script, secret_hash) ==
    {n \in 1..Len(script) : /\ InstructionOk(script[n])
                            /\ script[n].opcode = OP_PUSHBYTES_32
                            /\ dhash160(script[n].data) = secret_hash}

\* C6 as stated: the call returns the secret of the first input whose script
\* signature holds, at any position, a 32 byte push hashing to secret_hash,
\* and fails with "Couldn't extract secret" when no input holds one
C6_SecretFromAnyPush ==
    (IsSome(es_result) /\ IsSome(es_args[1].spend_tx)) =>
        LET inputs == es_args[1].spend_tx[1].inputs
            h == es_args[1].secret_hash
            carrying == {k \in 1..Len(inputs) : SecretPushes(inputs[k].script_sig, h) # {}}
        IN  IF carrying = {} THEN es_result[1].status = "ErrCouldntExtractSecret"
            ELSE LET k == CHOOSE m \in carrying : \A o \in carrying : m <= o
                 IN  /\ es_result[1].status = "Ok"
                     /\ \E n \in SecretPushes(inputs[k].script_sig, h) :
                            es_result[1].secret = inputs[k].script_sig[n].data

\* C6 amended: the call returns the secret of the first input whose script
\* signature holds at instruction position 1 (counted from 0) a 32 byte push
\* hashing to secret_hash, whatever the index of that input, and fails with
\* "Couldn't extract secret" when no input holds one at that position
C6_SecretFromPositionOne ==
    (IsSome(es_result) /\ IsSome(es_args[1].spend_tx)) =>
        LET inputs == es_args[1].spend_tx[1].inputs
            h == es_args[1].secret_hash
            carrying == {k \in 1..Len(inputs) : 2 \in SecretPushes(inputs[k].script_sig, h)}
        IN  IF carrying = {} THEN es_result[1].status = "ErrCouldntExtractSecret"
            ELSE LET k == CHOOSE m \in carrying : \A o \in carrying : m <= o
                 IN  /\ es_result[1].status = "Ok"
                     /\ es_result[1].secret = inputs[k].script_sig[2].data
                     /\ dhash160(es_result[1].secret) = h

\* the secret is found in the second input of a spend whose first input is
\* an unrelated P2PKH input
C6_Witness ==
    /\ IsSome(es_result) /\ es_result[1].status = "Ok"
    /\ Len(es_args[1].spend_tx[1].inputs) = 2
    /\ SecretOfInput(es_args[1].spend_tx[1].inputs[1], es_args[1].secret_hash) = None
    /\ es_result[1].secret = Secret(5)

(***************************************************************************)
(* validate_fee and its helpers                                            *)
(***************************************************************************)
\* Signature::from_der accepts the bytes: a DER signature is a SEQUENCE, tag
\* 0x30, of two integers
SignatureFromDerOk(bytes) == Len(bytes) >= 2 /\ bytes[1] = 48

\* PublicKey::from_slice accepts the bytes: a compressed key of 33 bytes with
\* prefix 2 or 3, or an uncompressed key of 65 bytes with prefix 4
PublicKeyFromSliceOk(bytes) ==
    \/ Len(bytes) = 33 /\ bytes[1] \in {2, 3}
    \/ Len(bytes) = 65 /\ bytes[1] = 4

\* PublicKey::serialize: the compressed form of an accepted key
PublicKeySerialize(bytes) ==
    IF Len(bytes) = 33 THEN bytes ELSE <<2 + (bytes[65] % 2)>> \o SubSeq(bytes, 2, 33)

\* &bytes[..bytes.len() - 1]
DropLast(bytes) == SubSeq(bytes, 1, Len(bytes) - 1)

PubkeyErr == [ok |-> FALSE, pubkey |-> <<>>]
PubkeyOk(bytes) == [ok |-> TRUE, pubkey |-> bytes]

pubkey_from_script_sig(script) ==
    LET i0 == get_instruction(script, 0)
        i1 == get_instruction(script, 1)
    IN  IF ~IsSome(i0) \/ ~InstructionOk(i0[1]) THEN PubkeyErr
        ELSE IF i0[1].opcode \notin {OP_PUSHBYTES_70, OP_PUSHBYTES_71, OP_PUSHBYTES_72} THEN PubkeyErr
        ELSE IF ~SignatureFromDerOk(DropLast(i0[1].data)) THEN PubkeyErr
        ELSE IF ~IsSome(i1) \/ ~InstructionOk(i1[1]) THEN PubkeyErr
        ELSE IF i1[1].opcode # OP_PUSHBYTES_33 THEN PubkeyErr
        ELSE IF ~PublicKeyFromSliceOk(i1[1].data) THEN PubkeyErr
        ELSE IF IsSome(get_instruction(script, 2)) THEN PubkeyErr
        ELSE PubkeyOk(PublicKeySerialize(i1[1].data))

pubkey_from_witness_script(witness_script) ==
    IF Len(witness_script) # 2 THEN PubkeyErr
    ELSE IF witness_script[1] = <<>> THEN PubkeyErr
    ELSE IF ~SignatureFromDerOk(DropLast(witness_script[1])) THEN PubkeyErr
    ELSE IF ~PublicKeyFromSliceOk(witness_script[2]) THEN PubkeyErr
    ELSE PubkeyOk(PublicKeySerialize(witness_script[2]))

\* TransactionInput::has_witness
has_witness(input) == input.script_witness # <<>>

\* "Err", "False" or "True"
RECURSIVE CheckInputsFrom(_, _, _)
CheckInputsFrom(inputs, expected_pub, k) ==
    IF k > Len(inputs) THEN "True"
    ELSE LET pubkey == IF has_witness(inputs[k])
                       THEN pubkey_from_witness_script(inputs[k].script_witness)
                       ELSE pubkey_from_script_sig(inputs[k].script_sig)
         IN  IF ~pubkey.ok THEN "Err"
             ELSE IF pubkey.pubkey # expected_pub THEN "False"
             ELSE CheckInputsFrom(inputs, expected_pub, k + 1)

check_all_inputs_signed_by_pub(tx, expected_pub) == CheckInputsFrom(tx.inputs, expected_pub, 1)

\* is_tx_confirmed_before_block without the fallback to the number of
\* confirmations
is_tx_confirmed_before_block_height_only(tx, current_block, block_number) ==
    IF IsSome(tx.height) THEN tx.height[1] <= block_number
    ELSE FALSE

\* current_block is the reply of get_block_count, read only when the
\* transaction has no height and has confirmations
is_tx_confirmed_before_block(tx, current_block, block_number) ==
    IF IsSome(tx.height) THEN tx.height[1] <= block_number
    ELSE IF tx.confirmations > 0
         THEN current_block + 1 - tx.confirmations <= block_number
         ELSE FALSE

\* validate_fee from the comparison with the bytes of the RPC on
validate_fee_tx_checks(a, tx_from_rpc) ==
    IF tx_from_rpc.hex # serialize(a.tx) /\ tx_from_rpc.hex # serialize_with_flags(a.tx)
    THEN "ErrTxMismatch"
    ELSE IF a.output_index + 1 > Len(a.tx.outputs) THEN "ErrNoOutput"
    ELSE LET out == a.tx.outputs[a.output_index + 1]
             expected_script_pubkey == build_p2pkh(dhash160(a.fee_addr))
         IN  IF out.script_pubkey # expected_script_pubkey THEN "ErrScriptPubkey"
             ELSE IF out.value < a.amount THEN "ErrValue"
             ELSE "Ok"

(***************************************************************************)
(* Specification SpecFee: one call of validate_fee with the replies of     *)
(* get_verbose_transaction and get_block_count                             *)
(***************************************************************************)
FeeAmount == 10
MinBlockNumber == 100
FeeAddrPub == <<3>> \o Bytes(32, 20)
FeeScriptPubkey == build_p2pkh(dhash160(FeeAddrPub))

\* the inputs of a fee transaction: signed by the sender Pub(11) or by
\* Pub(12), legacy or segwit, and script signatures from which no key is read
FeeGoodInputs == {P2pkhInput(FundingOutPoint, 11), P2wpkhInput(FundingOutPoint, 11)}
FeeOtherInputs ==
    {P2pkhInput(UnrelatedOutPoint, 12), P2wpkhInput(UnrelatedOutPoint, 12),
     TxInput(UnrelatedOutPoint, <<Push(Sig(11))>>, SEQUENCE_FINAL, <<>>),
     TxInput(UnrelatedOutPoint, <<Push(Sig(11)), Push(Pub(11)), Op(OP_0)>>, SEQUENCE_FINAL, <<>>),
     TxInput(UnrelatedOutPoint, <<Push(<<2>> \o Bytes(70, 11)), Push(Pub(11))>>, SEQUENCE_FINAL, <<>>),
     TxInput(UnrelatedOutPoint, <<Push(Sig(11)), Push(<<5>> \o Bytes(32, 11))>>, SEQUENCE_FINAL, <<>>),
     TxInput(UnrelatedOutPoint, <<>>, SEQUENCE_FINAL, <<Sig(11)>>)}

FeeInputLists ==
    {<<i>> : i \in FeeGoodInputs \cup FeeOtherInputs}
    \cup {<<i, j>> : i \in FeeGoodInputs, j \in FeeGoodInputs}
    \cup {<<i, P2pkhInput(UnrelatedOutPoint, 12)>> : i \in FeeGoodInputs}
    \cup {<<P2wpkhInput(UnrelatedOutPoint, 12), i>> : i \in FeeGoodInputs}

FeeOutputLists ==
    {<<Out(v, FeeScriptPubkey)>> : v \in {FeeAmount - 1, FeeAmount, FeeAmount + 1}}
    \cup {<<Out(FeeAmount, OtherScriptPubkey)>>,
          <<Out(7, OtherScriptPubkey), Out(FeeAmount, FeeScriptPubkey)>>}

FeeCalls ==
    {[tx |-> Tx(ins, outs, 0), output_index |-> i, sender_pubkey |-> Pub(11),
      amount |-> FeeAmount, min_block_number |-> MinBlockNumber, fee_addr |-> f] :
        ins \in FeeInputLists, outs \in FeeOutputLists, i \in {0, 1},
        f \in {FeeAddrPub, Bytes(20, 20)}}

\* what get_verbose_transaction may answer: an error, or the transaction (or
\* another one) with its height, or without height and with a number of
\* confirmations
VerboseTxReplies(tx) ==
    {None}
    \cup {Some([hex |-> h, height |-> hc[1], confirmations |-> hc[2]]) :
            h \in {serialize(tx), serialize_with_flags(tx),
                   serialize(Tx(tx.inputs, <<Out(FeeAmount, FeeScriptPubkey), Out(1, MyScriptPubkey)>>, 0))},
            hc \in {<<Some(MinBlockNumber - 1), 3>>, <<Some(MinBlockNumber), 2>>,
                    <<Some(MinBlockNumber + 1), 1>>, <<None, 0>>, <<None, 1>>, <<None, 3>>}}

BlockCountReplies == {None, Some(MinBlockNumber), Some(MinBlockNumber + 1), Some(MinBlockNumber + 3)}

InitFee ==
    /\ vf_args \in {Some(c) : c \in FeeCalls}
    /\ vf_pc = "start"
    /\ vf_tx_from_rpc = None
    /\ vf_block_count = None
    /\ vf_result = "Pending"
    /\ GenIdle /\ ScriptIdle /\ VpIdle /\ SsIdle /\ EsIdle /\ BuildIdle /\ ExtIdle

\* validate_fee up to the get_verbose_transaction request
FeeStart ==
    /\ vf_pc = "start"
    /\ LET a == vf_args[1]
           signed == check_all_inputs_signed_by_pub(a.tx, a.sender_pubkey)
       IN  IF ~PublicFromSliceOk(a.fee_addr)
           THEN vf_pc' = "done" /\ vf_result' = "ErrFeeAddr"
           ELSE IF signed = "Err"
           THEN vf_pc' = "done" /\ vf_result' = "ErrPubkeyFromScript"
           ELSE IF signed = "False"
           THEN vf_pc' = "done" /\ vf_result' = "ErrWrongAddress"
           ELSE vf_pc' = "get_verbose_transaction" /\ UNCHANGED vf_result
    /\ UNCHANGED <<vf_args, vf_tx_from_rpc, vf_block_count>>
    /\ UNCHANGED notVf

\* the reply of get_verbose_transaction; the call goes on to get_block_count
\* when the reply has no height and has confirmations
FeeVerboseTxReply ==
    /\ vf_pc = "get_verbose_transaction"
    /\ \E r \in VerboseTxReplies(vf_args[1].tx) :
        /\ vf_tx_from_rpc' = r
        /\ IF ~IsSome(r)
           THEN vf_pc' = "done" /\ vf_result' = "ErrRpc"
           ELSE IF ~IsSome(r[1].height) /\ r[1].confirmations > 0
           THEN vf_pc' = "get_block_count" /\ UNCHANGED vf_result
           ELSE /\ vf_pc' = "done"
                /\ vf_result' =
                    IF is_tx_confirmed_before_block(r[1], 0, vf_args[1].min_block_number)
                    THEN "ErrConfirmedBefore"
                    ELSE validate_fee_tx_checks(vf_args[1], r[1])
    /\ UNCHANGED <<vf_args, vf_block_count>>
    /\ UNCHANGED notVf

\* the reply of get_block_count and the rest of validate_fee
FeeBlockCountReply ==
    /\ vf_pc = "get_block_count"
    /\ \E c \in BlockCountReplies :
        /\ vf_block_count' = c
        /\ vf_result' =
            IF ~IsSome(c) THEN "ErrRpc"
            ELSE IF is_tx_confirmed_before_block(vf_tx_from_rpc[1], c[1],
                                                 vf_args[1].min_block_number)
            THEN "ErrConfirmedBefore"
            ELSE validate_fee_tx_checks(vf_args[1], vf_tx_from_rpc[1])
    /\ vf_pc' = "done"
    /\ UNCHANGED <<vf_args, vf_tx_from_rpc>>
    /\ UNCHANGED notVf

NextFee == FeeStart \/ FeeVerboseTxReply \/ FeeBlockCountReply

SpecFee == InitFee /\ [][NextFee]_vars

\* the input shows a signature and the key pub, in its witness if it has one
\* and else in its script signature
InputSignedBy(input, pub) ==
    IF input.script_witness # <<>>
    THEN Len(input.script_witness) = 2 /\ input.script_witness[2] = pub
    ELSE /\ Len(input.script_sig) = 2
         /\ input.script_sig[1].opcode \in OP_PUSHBYTES_70..OP_PUSHBYTES_72
         /\ input.script_sig[2].data = pub

\* the height the RPC replies put the confirmation of the fee transaction
\* at; None when they show it unconfirmed
FeeConfirmedAt ==
    IF IsSome(vf_tx_from_rpc[1].height) THEN vf_tx_from_rpc[1].height
    ELSE IF vf_tx_from_rpc[1].confirmations > 0
    THEN Some(vf_block_count[1] + 1 - vf_tx_from_rpc[1].confirmations)
    ELSE None

\* C8: validate_fee returns Ok only if every input is signed by the sender's
\* key, the transaction is not confirmed at a height up to min_block_number
\* (so not before it), and the output at output_index pays the fee address
\* at least the fee amount
C8_ValidateFeeOkOnlyIfAllHold ==
    vf_result = "Ok" =>
        LET a == vf_args[1]
        IN  /\ \A k \in 1..Len(a.tx.inputs) : InputSignedBy(a.tx.inputs[k], a.sender_pubkey)
            /\ (IsSome(FeeConfirmedAt) => FeeConfirmedAt[1] > a.min_block_number)
            /\ a.output_index + 1 <= Len(a.tx.outputs)
            /\ a.tx.outputs[a.output_index + 1].script_pubkey = build_p2pkh(dhash160(a.fee_addr))
            /\ a.tx.outputs[a.output_index + 1].value >= a.amount

\* a fee transaction of two inputs, one of them segwit, known to the RPC
\* without a height, is accepted at output 1 after the block count is read
C8_Witness ==
    /\ vf_result = "Ok"
    /\ Len(vf_args[1].tx.inputs) = 2
    /\ HasWitness(vf_args[1].tx)
    /\ vf_args[1].output_index = 1
    /\ IsSome(vf_block_count)

(***************************************************************************)
(* Transaction builds: list_unspent_ordered, ordered_mature_unspents,      *)
(* withdraw, qrc20_withdraw, send_contract_calls                           *)
(***************************************************************************)
QRC20_DUST == 0

OutPointsOf(unspents) == {u.outpoint : u \in unspents}

\* RecentlySpentOutPoints::replace_spent_outputs_with_cache: an unspent that
\* a cached transaction has spent gives way to the outputs of that
\* transaction
replace_spent_outputs_with_cache(cache, unspents) ==
    LET spent == {u \in unspents : \E e \in cache : u.outpoint \in e.inputs}
        replacement == UNION {e.outputs : e \in {c \in cache : c.inputs \cap OutPointsOf(spent) # {}}}
    IN  (unspents \ spent) \cup replacement

\* the orders sort_unstable_by may leave a set of unspents in: ascending by
\* value, unspents of one value in any order
SortedByValue(unspents) ==
    LET n == Cardinality(unspents)
    IN  {s \in [1..n -> unspents] :
            /\ \A i \in 1..n : \A j \in 1..n : i < j => s[i] # s[j] /\ s[i].value <= s[j].value}

\* Vec::dedup_by on the outpoint: of neighbours with one outpoint the first
\* stays
RECURSIVE DedupByOutpoint(_)
DedupByOutpoint(unspents) ==
    IF Len(unspents) <= 1 THEN unspents
    ELSE LET rest == DedupByOutpoint(Tail(unspents))
         IN  IF Head(unspents).outpoint = Head(rest).outpoint
             THEN <<Head(unspents)>> \o Tail(rest)
             ELSE <<Head(unspents)>> \o rest

\* the lists list_unspent_ordered may return for what the daemon listed and
\* what the cache holds
list_unspent_ordered(listed, cache) ==
    {DedupByOutpoint(s) : s \in SortedByValue(replace_spent_outputs_with_cache(cache, listed))}

\* the tail of ordered_mature_unspents: the unspents is_unspent_mature accepts
RECURSIVE MatureOnly(_)
MatureOnly(unspents) ==
    IF unspents = <<>> THEN <<>>
    ELSE (IF Head(unspents).mature THEN <<Head(unspents)>> ELSE <<>>) \o MatureOnly(Tail(unspents))

QtumCoin == GenCoin("QTUM", "Standard", FALSE, None, Some(Dynamic(64)))
Qrc20CoinFields == [QtumCoin EXCEPT !.ticker = "QRC20", !.dust_amount = QRC20_DUST]

\* the script of a contract call output
ContractCallScript == <<Push(<<4>>), Push(Bytes(20, 7)), Op(OP_CALL)>>

\* the generate_transaction call of withdraw
withdraw_generate_call(b) ==
    IF b.max
    THEN GenCall(QtumCoin, b.unspents,
                 <<Out(SumSeq([i \in 1..Len(b.unspents) |-> b.unspents[i].value]), OtherScriptPubkey)>>,
                 DeductFromOutput(0), None, None, None, None)
    ELSE GenCall(QtumCoin, b.unspents, <<Out(b.amount, OtherScriptPubkey)>>,
                 SendExact, None, None, None, None)

\* the generate_transaction call of generate_qrc20_transaction for one
\* contract call output of gas_limit * gas_price = b.amount
generate_qrc20_transaction_call(b) ==
    GenCall(Qrc20CoinFields, b.unspents, <<Out(0, ContractCallScript)>>,
            SendExact, None, Some(b.amount), None, None)

\* the coin whose recently_spent_outpoints the operation reads
CoinOf(op) == IF op = "withdraw" THEN "QTUM" ELSE "QRC20"

(***************************************************************************)
(* Specification SpecBuild: builds of withdraw, qrc20_withdraw and         *)
(* send_contract_calls on one address, the daemon and the caches           *)
(***************************************************************************)
NumBuilds == 2
Tasks == 1..NumBuilds
BuildOps == {"withdraw", "qrc20_withdraw", "send_contract_calls"}
Coins == {"QTUM", "QRC20"}

Unspent(outpoint, value, mature) == [outpoint |-> outpoint, value |-> value, mature |-> mature]

\* the unspents of the address when the builds start
WalletUtxos == {Unspent(1, 20, TRUE), Unspent(2, 50, TRUE), Unspent(3, 50, FALSE)}

\* a transaction the QTUM coin sent before the builds start: it spent
\* outpoint 1, its change is outpoint 9, and its coin remembers it
EarlierSend ==
    [by |-> 0, inputs |-> {1}, my_outputs |-> {Unspent(9, 15, TRUE)}, indexed |-> FALSE]

NewBuild(op, amount, max) ==
    [op |-> op, amount |-> amount, max |-> max, pc |-> "start", listed |-> {},
     unspents |-> <<>>, selected |-> {}, my_outputs |-> {}, prior |-> {}, result |-> "Pending"]

InitBuild ==
    /\ builds \in [Tasks -> {NewBuild(op, 4, FALSE) : op \in BuildOps \ {"withdraw"}}
                            \cup {NewBuild("withdraw", 25, m) : m \in BOOLEAN}]
    /\ utxo_lock = 0
    /\ recently_spent_lock = [c \in Coins |-> 0]
    /\ rpc_utxos = WalletUtxos
    /\ \E earlier \in BOOLEAN :
        /\ sent = IF earlier THEN {EarlierSend} ELSE {}
        /\ recently_spent = [c \in Coins |->
                                IF earlier /\ c = "QTUM"
                                THEN {[inputs |-> EarlierSend.inputs, outputs |-> EarlierSend.my_outputs]}
                                ELSE {}]
    /\ GenIdle /\ ScriptIdle /\ VpIdle /\ SsIdle /\ EsIdle /\ VfIdle /\ ExtIdle

\* UTXO_LOCK.lock().await
LockUtxo(t) ==
    /\ builds[t].pc = "start"
    /\ utxo_lock = 0
    /\ utxo_lock' = t
    /\ builds' = [builds EXCEPT ![t].pc = "list_unspent"]
    /\ UNCHANGED <<recently_spent_lock, recently_spent, rpc_utxos, sent>>
    /\ UNCHANGED notBuild

\* list_unspent_ordered: the list_unspent request, answered or failed
ListUnspent(t) ==
    /\ builds[t].pc = "list_unspent"
    /\ \E ok \in BOOLEAN :
        IF ok
        THEN /\ builds' = [builds EXCEPT ![t].pc = "lock_recently_spent",
                                         ![t].listed = rpc_utxos,
                                         ![t].prior = UNION {x.inputs : x \in sent}]
             /\ UNCHANGED utxo_lock
        ELSE /\ builds' = [builds EXCEPT ![t].pc = "done", ![t].result = "ErrRpc"]
             /\ utxo_lock' = 0
    /\ UNCHANGED <<recently_spent_lock, recently_spent, rpc_utxos, sent>>
    /\ UNCHANGED notBuild

\* list_unspent_ordered: recently_spent_outpoints.lock().await, then the
\* cache, the sort and the dedup
LockRecentlySpent(t) ==
    /\ builds[t].pc = "lock_recently_spent"
    /\ recently_spent_lock[CoinOf(builds[t].op)] = 0
    /\ recently_spent_lock' = [recently_spent_lock EXCEPT ![CoinOf(builds[t].op)] = t]
    /\ \E unspents \in list_unspent_ordered(builds[t].listed, recently_spent[CoinOf(builds[t].op)]) :
        builds' = [builds EXCEPT ![t].pc = "mature", ![t].unspents = unspents]
    /\ UNCHANGED <<utxo_lock, recently_spent, rpc_utxos, sent>>
    /\ UNCHANGED notBuild

\* ordered_mature_unspents returns the mature unspents and the guard, and
\* "let (unspents, _)" of the caller drops the guard
MatureUnspents(t) ==
    /\ builds[t].pc = "mature"
    /\ builds' = [builds EXCEPT ![t].pc = "generate", ![t].unspents = MatureOnly(@)]
    /\ recently_spent_lock' = [recently_spent_lock EXCEPT ![CoinOf(builds[t].op)] = 0]
    /\ UNCHANGED <<utxo_lock, recently_spent, rpc_utxos, sent>>
    /\ UNCHANGED notBuild

\* generate_transaction and sign_tx; withdraw and qrc20_withdraw return here
\* and let go of UTXO_LOCK, send_contract_calls goes on to send_transaction
GenerateTx(t) ==
    /\ builds[t].pc = "generate"
    /\ \E call \in {IF builds[t].op = "withdraw" THEN withdraw_generate_call(builds[t])
                    ELSE generate_qrc20_transaction_call(builds[t])} :
       \E r \in {generate_transaction(call)} :
           IF r.status # "Ok"
           THEN /\ builds' = [builds EXCEPT ![t].pc = "done", ![t].result = r.status]
                /\ utxo_lock' = 0
           ELSE LET selected == {r.tx.inputs[i].previous_output : i \in 1..Len(r.tx.inputs)}
                    mine == {i \in 1..Len(r.tx.outputs) : r.tx.outputs[i].script_pubkey = MyScriptPubkey}
                    my_outputs == {Unspent(10 * t + i, r.tx.outputs[i].value, TRUE) : i \in mine}
                IN  IF builds[t].op = "send_contract_calls"
                    THEN /\ builds' = [builds EXCEPT ![t].pc = "send_transaction",
                                                     ![t].selected = selected,
                                                     ![t].my_outputs = my_outputs]
                         /\ UNCHANGED utxo_lock
                    ELSE /\ builds' = [builds EXCEPT ![t].pc = "done", ![t].result = "Ok",
                                                     ![t].selected = selected,
                                                     ![t].my_outputs = my_outputs]
                         /\ utxo_lock' = 0
    /\ UNCHANGED <<recently_spent_lock, recently_spent, rpc_utxos, sent>>
    /\ UNCHANGED notBuild

\* send_contract_calls: send_transaction, accepted or failed, and the return
SendTransaction(t) ==
    /\ builds[t].pc = "send_transaction"
    /\ \E ok \in BOOLEAN :
        IF ok
        THEN /\ sent' = sent \cup {[by |-> t, inputs |-> builds[t].selected,
                                    my_outputs |-> builds[t].my_outputs, indexed |-> FALSE]}
             /\ builds' = [builds EXCEPT ![t].pc = "done", ![t].result = "Ok"]
        ELSE /\ builds' = [builds EXCEPT ![t].pc = "done", ![t].result = "ErrRpc"]
             /\ UNCHANGED sent
    /\ utxo_lock' = 0
    /\ UNCHANGED <<recently_spent_lock, recently_spent, rpc_utxos>>
    /\ UNCHANGED notBuild

\* the daemon brings list_unspent up to date with a transaction it was sent
DaemonIndexesTx ==
    /\ \E x \in sent :
        /\ ~x.indexed
        /\ sent' = (sent \ {x}) \cup {[x EXCEPT !.indexed = TRUE]}
        /\ rpc_utxos' = {u \in rpc_utxos : u.outpoint \notin x.inputs} \cup x.my_outputs
    /\ UNCHANGED <<builds, utxo_lock, recently_spent_lock, recently_spent>>
    /\ UNCHANGED notBuild

NextBuild ==
    \/ \E t \in Tasks : LockUtxo(t)
    \/ \E t \in Tasks : ListUnspent(t)
    \/ \E t \in Tasks : LockRecentlySpent(t)
    \/ \E t \in Tasks : MatureUnspents(t)
    \/ \E t \in Tasks : GenerateTx(t)
    \/ \E t \in Tasks : SendTransaction(t)
    \/ DaemonIndexesTx

SpecBuild == InitBuild /\ [][NextBuild]_vars

\* the build is between taking UTXO_LOCK and its return
InFlight(t) == builds[t].pc \notin {"start", "done"}

\* C2: two builds never select the same unspent output, and at most one
\* build is in flight at a time
C2_NeverSameUnspent ==
    \A t \in Tasks : \A u \in Tasks :
        t # u => /\ builds[t].selected \cap builds[u].selected = {}
                 /\ ~(InFlight(t) /\ InFlight(u))

\* C3: a build that lists the unspents after an earlier transaction of the
\* address was sent does not see the inputs of that transaction, whether or
\* not the daemon has caught up with it
C3_EarlierInputsUnavailable ==
    \A t \in Tasks :
        builds[t].pc \in {"mature", "generate", "send_transaction"} =>
            OutPointsOf({builds[t].unspents[i] : i \in 1..Len(builds[t].unspents)})
                \cap builds[t].prior = {}

(***************************************************************************)
(* Swap messages of mm2src/lp_swap.rs: SwapMsg, SwapMsgStore,              *)
(* SwapsContext::init_msg_store, process_msg                               *)
(***************************************************************************)
Uuids == {"uuid-1", "uuid-2"}
\* public keys of peers, as the bits256 of accept_only_from
Peers == {21, 22}
\* the NegotiationDataMsg values a peer may send
NegotiationDataMsgs == {[started_at |-> 100, payment_locktime |-> l, secret_hash |-> h] :
                            l \in {7800, 15600}, h \in {5, 6}}
PaymentBytes == {<<1>>, <<2>>}

SwapMsgVariants ==
    {"Negotiation", "NegotiationReply", "Negotiated", "TakerFee", "MakerPayment", "TakerPayment"}

\* a SwapMsg: its variant and the data of the variant, the data of the other
\* variants left at their defaults
NoNegotiationData == [started_at |-> 0, payment_locktime |-> 0, secret_hash |-> 0]
NegotiationMsg(variant, data) ==
    [variant |-> variant, negotiation |-> data, negotiated |-> FALSE, bytes |-> <<>>]
NegotiatedMsg(flag) ==
    [variant |-> "Negotiated", negotiation |-> NoNegotiationData, negotiated |-> flag,
     bytes |-> <<>>]
PaymentMsg(variant, bytes) ==
    [variant |-> variant, negotiation |-> NoNegotiationData, negotiated |-> FALSE, bytes |-> bytes]

\* the SwapMsg values of the enum
SwapMsgs ==
    {NegotiationMsg(v, d) : v \in {"Negotiation", "NegotiationReply"}, d \in NegotiationDataMsgs}
        \cup {NegotiatedMsg(b) : b \in BOOLEAN}
        \cup {PaymentMsg(v, d) : v \in {"TakerFee", "MakerPayment", "TakerPayment"}, d \in PaymentBytes}

\* SwapMsgStore::new
SwapMsgStore_new(accept_only_from) ==
    [negotiation |-> None, negotiation_reply |-> None, negotiated |-> None, taker_fee |-> None,
     maker_payment |-> None, taker_payment |-> None, accept_only_from |-> accept_only_from]

\* the match of process_msg on msg.0
StoreSwapMsg(msg_store, msg) ==
    CASE msg.variant = "Negotiation" -> [msg_store EXCEPT !.negotiation = Some(msg.negotiation)]
      [] msg.variant = "NegotiationReply" ->
            [msg_store EXCEPT !.negotiation_reply = Some(msg.negotiation)]
      [] msg.variant = "Negotiated" -> [msg_store EXCEPT !.negotiated = Some(msg.negotiated)]
      [] msg.variant = "TakerFee" -> [msg_store EXCEPT !.taker_fee = Some(msg.bytes)]
      [] msg.variant = "MakerPayment" -> [msg_store EXCEPT !.maker_payment = Some(msg.bytes)]
      [] msg.variant = "TakerPayment" -> [msg_store EXCEPT !.taker_payment = Some(msg.bytes)]

\* a persisted swap record: its type, uuid, the tickers maker_coin() and
\* taker_coin() return (None when they fail), is_finished() and the secret
\* its events hold (None when they hold none)
SavedSwap(type, uuid, maker_coin, taker_coin, finished, secret) ==
    [type |-> type, uuid |-> uuid, maker_coin |-> maker_coin, taker_coin |-> taker_coin,
     finished |-> finished, secret |-> secret]

SwapTypes == {"Maker", "Taker"}
StatsKeys == SwapTypes \X Uuids

\* save_stats_swap: the status goes to the stats file of its type and uuid
save_stats_swap(db, swap) == [db EXCEPT ![<<swap.type, swap.uuid>>] = Some(swap)]

\* what the bytes of an incoming message decode to
NoSwap == SavedSwap("Maker", "uuid-1", None, None, TRUE, None)
SignedSwapMsg(msg, from) == [kind |-> "SwapMsg", msg |-> msg, from |-> from, data |-> NoSwap]
SwapStatusMsg(swap) ==
    [kind |-> "SwapStatus", msg |-> NegotiatedMsg(FALSE), from |-> 0, data |-> swap]
GarbageMsg == [kind |-> "Garbage", msg |-> NegotiatedMsg(FALSE), from |-> 0, data |-> NoSwap]

\* a process_msg that stores the messages of every sender
process_msg_swap_msgs_AnySender(msgs, topic, msg) ==
    IF topic \notin Uuids THEN msgs
    ELSE IF msg.kind # "SwapMsg" THEN msgs
    ELSE IF ~IsSome(msgs[topic]) THEN msgs
    ELSE [msgs EXCEPT ![topic] = Some(StoreSwapMsg(msgs[topic][1], msg.msg))]

\* process_msg(ctx, topic, msg): the stores and the stats directory after it
process_msg_swap_msgs(msgs, topic, msg) ==
    IF topic \notin Uuids THEN msgs
    ELSE IF msg.kind # "SwapMsg" THEN msgs
    ELSE IF ~IsSome(msgs[topic]) THEN msgs
    ELSE IF msgs[topic][1].accept_only_from # msg.from THEN msgs
    ELSE [msgs EXCEPT ![topic] = Some(StoreSwapMsg(msgs[topic][1], msg.msg))]

process_msg_stats_db(db, topic, msg) ==
    IF topic \notin Uuids THEN db
    ELSE IF msg.kind = "SwapStatus" THEN save_stats_swap(db, msg.data)
    ELSE db

ProcessMsg(topic, msg) ==
    /\ swap_msgs' = process_msg_swap_msgs(swap_msgs, topic, msg)
    /\ stats_db' = process_msg_stats_db(stats_db, topic, msg)
    /\ UNCHANGED <<p2p_out, my_swaps, ks_pc, ks_spawned, ks_coins>>

\* SwapsContext::init_msg_store
InitMsgStore(uuid, accept_only_from) ==
    /\ swap_msgs' = [swap_msgs EXCEPT ![uuid] = Some(SwapMsgStore_new(accept_only_from))]
    /\ UNCHANGED <<stats_db, p2p_out, my_swaps, ks_pc, ks_spawned, ks_coins>>

(***************************************************************************)
(* The waiting loops: wait_for_output_spend (utxo_common.rs) and           *)
(* recv_swap_msg (lp_swap.rs)                                              *)
(***************************************************************************)
\* the last second of the clock
MaxNow == 125
\* the longest the RPC takes to answer find_output_spend, in seconds
MaxQuerySecs == 3

BASIC_COMM_TIMEOUT == 90
\* Timer::sleep(10.) of wait_for_output_spend, Timer::sleep(1.) of recv_swap_msg
SPEND_POLL_SECS == 10
MSG_POLL_SECS == 1

\* "if now_ms() / 1000 > wait_until" of wait_for_output_spend
WaitedTooLong_Never(time, wait_until) == FALSE

WaitedTooLong(time, wait_until) == time > wait_until

\* "if now > wait_until" of recv_swap_msg
MsgTimeout(time, wait_until) == time > wait_until

\* the getter closures recv_swap_msg is called with read one field of the
\* store, and may take the message out of it
GetterFields == {"negotiation", "maker_payment"}
getter(msg_store, field) ==
    IF field = "negotiation" THEN msg_store.negotiation ELSE msg_store.maker_payment
getter_store(msg_store, field, take) ==
    IF ~take THEN msg_store
    ELSE IF field = "negotiation" THEN [msg_store EXCEPT !.negotiation = None]
    ELSE [msg_store EXCEPT !.maker_payment = None]

WsCalls ==
    {[tx_ok |-> ok, wait_until |-> w, called_at |-> t] :
        ok \in BOOLEAN, w \in {12, 25}, t \in {0, 20}}
RmCalls ==
    {[uuid |-> "uuid-1", field |-> f, take |-> t, timeout |-> x] :
        f \in GetterFields, t \in BOOLEAN, x \in {0, 3}}

\* the messages that reach process_msg while recv_swap_msg waits
WaitIncoming ==
    {SignedSwapMsg(NegotiationMsg("Negotiation", d), p) :
        d \in {x \in NegotiationDataMsgs : x.payment_locktime = 7800 /\ x.secret_hash = 5},
        p \in Peers}
        \cup {SignedSwapMsg(PaymentMsg("MakerPayment", <<1>>), 21), GarbageMsg}

InitWait ==
    /\ now \in {0, 20}
    /\ \/ /\ ws_args \in {Some(c) : c \in {x \in WsCalls : x.called_at = now}}
          /\ ws_pc = "start" /\ ws_timer = 0 /\ ws_result = "Pending" /\ ws_returned_at = None
          /\ RmIdle
          /\ swap_msgs = [u \in Uuids |-> None]
       \/ /\ rm_args \in {Some(c) : c \in RmCalls}
          /\ rm_pc = "start" /\ rm_started = 0 /\ rm_timer = 0 /\ rm_result = "Pending"
          /\ rm_returned_at = None
          /\ WsIdle
          /\ swap_msgs \in {[u \in Uuids |-> None],
                            [u \in Uuids |-> IF u = "uuid-1" THEN Some(SwapMsgStore_new(21)) ELSE None]}
    /\ stats_db = [k \in StatsKeys |-> None]
    /\ p2p_out = {} /\ my_swaps = <<>> /\ ks_pc = "idle" /\ ks_spawned = {} /\ ks_coins = {}
    /\ CoreIdle /\ PfIdle /\ HfIdle /\ LateIdle

\* a second passes; a step that takes no time is taken first, a sleep ends
\* when its time is over and the RPC answers within MaxQuerySecs
Tick ==
    /\ now < MaxNow
    /\ ws_pc \notin {"start"}
    /\ ws_pc = "query" => now < ws_timer + MaxQuerySecs
    /\ ws_pc = "sleep" => now < ws_timer + SPEND_POLL_SECS
    /\ rm_pc \notin {"start"}
    /\ rm_pc = "sleep" => now < rm_timer + MSG_POLL_SECS
    /\ now' = now + 1
    /\ UNCHANGED <<wsVars, rmVars, nodeVars>>
    /\ UNCHANGED notWait

\* wait_for_output_spend up to the first find_output_spend request
WsStart ==
    /\ ws_pc = "start"
    /\ IF ~ws_args[1].tx_ok
       THEN ws_pc' = "done" /\ ws_result' = "ErrDeserialize" /\ ws_returned_at' = Some(now)
            /\ UNCHANGED ws_timer
       ELSE ws_pc' = "query" /\ ws_timer' = now /\ UNCHANGED <<ws_result, ws_returned_at>>
    /\ UNCHANGED <<ws_args, now, rmVars, nodeVars>>
    /\ UNCHANGED notWait

\* the reply of find_output_spend and the rest of the loop body up to
\* Timer::sleep
WsReply ==
    /\ ws_pc = "query"
    /\ \E reply \in {"Some", "None", "Err"} :
        IF reply = "Some"
        THEN ws_pc' = "done" /\ ws_result' = "Ok" /\ ws_returned_at' = Some(now)
             /\ UNCHANGED ws_timer
        ELSE IF WaitedTooLong(now, ws_args[1].wait_until)
        THEN ws_pc' = "done" /\ ws_result' = "ErrWaitedTooLong" /\ ws_returned_at' = Some(now)
             /\ UNCHANGED ws_timer
        ELSE ws_pc' = "sleep" /\ ws_timer' = now /\ UNCHANGED <<ws_result, ws_returned_at>>
    /\ UNCHANGED <<ws_args, now, rmVars, nodeVars>>
    /\ UNCHANGED notWait

\* Timer::sleep(10.) is over: the next find_output_spend request
WsWake ==
    /\ ws_pc = "sleep"
    /\ now >= ws_timer + SPEND_POLL_SECS
    /\ ws_pc' = "query" /\ ws_timer' = now
    /\ UNCHANGED <<ws_args, ws_result, ws_returned_at, now, rmVars, nodeVars>>
    /\ UNCHANGED notWait

\* recv_swap_msg up to the first Timer::sleep
RmStart ==
    /\ rm_pc = "start"
    /\ rm_started' = now
    /\ rm_pc' = "sleep" /\ rm_timer' = now
    /\ UNCHANGED <<rm_args, rm_result, rm_returned_at, now, wsVars, nodeVars>>
    /\ UNCHANGED notWait

\* Timer::sleep(1.) is over: the store is read, then the clock
RmWake ==
    /\ rm_pc = "sleep"
    /\ now >= rm_timer + MSG_POLL_SECS
    /\ LET a == rm_args[1]
           wait_until == rm_started + (BASIC_COMM_TIMEOUT + a.timeout)
           store == swap_msgs[a.uuid]
       IN  IF IsSome(store) /\ IsSome(getter(store[1], a.field))
           THEN /\ rm_pc' = "done" /\ rm_result' = "Ok" /\ rm_returned_at' = Some(now)
                /\ swap_msgs' = [swap_msgs EXCEPT ![a.uuid] =
                                    Some(getter_store(store[1], a.field, a.take))]
                /\ UNCHANGED rm_timer
           ELSE IF MsgTimeout(now, wait_until)
           THEN /\ rm_pc' = "done" /\ rm_result' = "ErrTimeout" /\ rm_returned_at' = Some(now)
                /\ UNCHANGED <<swap_msgs, rm_timer>>
           ELSE /\ rm_pc' = "sleep" /\ rm_timer' = now
                /\ UNCHANGED <<swap_msgs, rm_result, rm_returned_at>>
    /\ UNCHANGED <<rm_args, rm_started, now, wsVars>>
    /\ UNCHANGED <<stats_db, p2p_out, my_swaps, ks_pc, ks_spawned, ks_coins>>
    /\ UNCHANGED notWait

\* a message of the swap arrives while recv_swap_msg waits
WaitProcessMsg ==
    /\ rm_pc = "sleep"
    /\ \E msg \in WaitIncoming : ProcessMsg(rm_args[1].uuid, msg)
    /\ swap_msgs' # swap_msgs
    /\ UNCHANGED <<now, wsVars, rmVars>>
    /\ UNCHANGED notWait

NextWait == Tick \/ WsStart \/ WsReply \/ WsWake \/ RmStart \/ RmWake \/ WaitProcessMsg

SpecWait == InitWait /\ [][NextWait]_vars

\* the loops go on: every enabled step is taken in the end
FairSpecWait == SpecWait /\ WF_vars(NextWait)

\* the second in which the clock first exceeds the deadline of the
\* wait_for_output_spend call, or the second of the call when that is later
WsDeadlineExceeded ==
    IF ws_args[1].called_at > ws_args[1].wait_until + 1
    THEN ws_args[1].called_at ELSE ws_args[1].wait_until + 1
RmDeadlineExceeded == rm_started + (BASIC_COMM_TIMEOUT + rm_args[1].timeout) + 1

WsInTime(time) == time <= WsDeadlineExceeded + SPEND_POLL_SECS + MaxQuerySecs
RmInTime(time) == time <= RmDeadlineExceeded + MSG_POLL_SECS

WaitLoopsInTime ==
    /\ ws_pc \in {"start", "query", "sleep"} => WsInTime(now)
    /\ ws_pc = "done" => WsInTime(ws_returned_at[1])
    /\ ws_pc = "done" /\ ws_args[1].tx_ok => ws_result \in {"Ok", "ErrWaitedTooLong"}
    /\ rm_pc = "sleep" => RmInTime(now)
    /\ rm_pc = "done" => RmInTime(rm_returned_at[1]) /\ rm_result \in {"Ok", "ErrTimeout"}

WaitLoopsReturned == ws_pc \in {"idle", "done"} /\ rm_pc \in {"idle", "done"}

\* C11: wait_for_output_spend and recv_swap_msg never hang: a call that has
\* entered its loop returns the awaited result or a timeout error, and it
\* has returned no later than one polling interval (plus one find_output_spend
\* query in flight) after the clock has exceeded its deadline.
C11_WaitLoopsNeverHang == []WaitLoopsInTime /\ <>WaitLoopsReturned

\* a wait_for_output_spend that timed out as late as it may, and a
\* recv_swap_msg is covered by the same bound
C11_Witness ==
    /\ ws_pc = "done" /\ ws_result = "ErrWaitedTooLong"
    /\ ws_returned_at[1] = ws_args[1].wait_until + SPEND_POLL_SECS + MaxQuerySecs

(***************************************************************************)
(* Properties of the fetch loop of validate_payment (specification SpecVp) *)
(***************************************************************************)
\* C12: validate_payment asks the RPC for the transaction at most 3 times
\* with 10 seconds of sleep between two requests, gives up once the third
\* request has failed, and sends no request after one that succeeded.
C12_AtMostThreeFetches ==
    /\ vp_fetches <= 3
    /\ vp_pc = "done" /\ vp_result = "ErrRpc" => vp_fetches = 3
    /\ vp_pc = "fetch" => vp_slept = 10 * vp_fetches
    /\ vp_pc = "done" /\ IsSome(vp_reply) => vp_slept = 10 * (vp_fetches - 1)

(***************************************************************************)
(* swap_kick_starts of mm2src/lp_swap.rs                                   *)
(***************************************************************************)
\* a file of the SWAPS/MY directory: its extension, whether its content
\* deserializes to a SavedSwap, and that SavedSwap
MyFile(ext, parses, swap) == [ext |-> ext, parses |-> parses, swap |-> swap]

\* the paths swap_kick_starts keeps of read_dir
IsJsonEntry(file) == file.ext = "json"

\* whether swap_kick_starts spawns a thread for the file, by the checks of
\* its closure: the content deserializes, the swap is not finished, and
\* maker_coin_ticker() and taker_coin_ticker() succeed
KickStarted_FinishedToo(file) ==
    /\ IsJsonEntry(file)
    /\ file.parses
    /\ IsSome(file.swap.maker_coin)
    /\ IsSome(file.swap.taker_coin)

KickStarted(file) ==
    /\ IsJsonEntry(file)
    /\ file.parses
    /\ ~file.swap.finished
    /\ IsSome(file.swap.maker_coin)
    /\ IsSome(file.swap.taker_coin)

\* the tickers the closure inserts into coins for the file
KickCoins(file) ==
    IF KickStarted(file) THEN {file.swap.maker_coin[1], file.swap.taker_coin[1]} ELSE {}

\* the files the directory may hold for one uuid when the node restarts
KickFiles(u) ==
    {None,
     Some(MyFile("tmp", TRUE, SavedSwap("Maker", u, Some("KMD"), Some("BTC"), FALSE, None))),
     Some(MyFile("json", FALSE, SavedSwap("Maker", u, None, None, FALSE, None))),
     Some(MyFile("json", TRUE, SavedSwap("Maker", u, Some("KMD"), Some("BTC"), FALSE, None))),
     Some(MyFile("json", TRUE, SavedSwap("Taker", u, Some("BTC"), Some("LTC"), FALSE, None))),
     Some(MyFile("json", TRUE, SavedSwap("Maker", u, Some("KMD"), Some("BTC"), TRUE, None))),
     Some(MyFile("json", TRUE, SavedSwap("Taker", u, None, Some("BTC"), FALSE, None))),
     Some(MyFile("json", TRUE, SavedSwap("Maker", u, Some("KMD"), None, FALSE, None))),
     Some(MyFile("json", TRUE, SavedSwap("Taker", u, None, None, TRUE, None)))}

\* the tickers of the swap records
KickTickers == {"KMD", "BTC", "LTC"}

InitKick ==
    /\ \E f1 \in KickFiles("uuid-1") : \E f2 \in KickFiles("uuid-2") :
          my_swaps = [u \in Uuids |-> IF u = "uuid-1" THEN f1 ELSE f2]
    /\ ks_pc = "start"
    /\ ks_spawned = [u \in Uuids |-> "none"]
    /\ ks_coins = {}
    /\ ks_active \in SUBSET KickTickers
    /\ swap_msgs = [u \in Uuids |-> None]
    /\ stats_db = [k \in StatsKeys |-> None]
    /\ p2p_out = {}
    /\ CoreIdle /\ WaitIdle /\ PfIdle /\ HfIdle /\ CiIdle /\ HlIdle /\ TailIdle

\* swap_kick_starts: the directory is read, a thread is spawned for each
\* swap to kick-start, and the coins are returned
SwapKickStarts ==
    /\ ks_pc = "start"
    /\ ks_pc' = "done"
    /\ ks_spawned' = [u \in Uuids |->
                        IF IsSome(my_swaps[u]) /\ KickStarted(my_swaps[u][1])
                        THEN "find_taker_coin" ELSE "none"]
    /\ ks_coins' = UNION {KickCoins(my_swaps[u][1]) : u \in {x \in Uuids : IsSome(my_swaps[x])}}
    /\ UNCHANGED <<swap_msgs, stats_db, p2p_out, my_swaps>>
    /\ UNCHANGED notNode

\* an lp_coinfind that also finds coins that are not activated
lp_coinfind_replies_Any(ticker) == {"Some", "None", "Err"}

\* what lp_coinfind may answer for a ticker: Ok(Some(coin)) when the coin is
\* activated, Ok(None) when it is not, or an error
lp_coinfind_replies(ticker) ==
    IF ticker \in ks_active THEN {"Some", "Err"} ELSE {"None", "Err"}

\* the spawned thread: lp_coinfind of the taker coin; Ok(None) sleeps 5
\* seconds and asks again
KickFindTakerCoinReply(u, reply) ==
    /\ ks_spawned[u] = "find_taker_coin"
    /\ reply \in lp_coinfind_replies(my_swaps[u][1].swap.taker_coin[1])
    /\ ks_spawned' = [ks_spawned EXCEPT ![u] =
                          CASE reply = "Some" -> "find_maker_coin"
                            [] reply = "None" -> "find_taker_coin"
                            [] reply = "Err" -> "returned"]
    /\ UNCHANGED <<swap_msgs, stats_db, p2p_out, my_swaps, ks_pc, ks_coins>>
    /\ UNCHANGED notNode

KickFindTakerCoin(u) == \E reply \in {"Some", "None", "Err"} : KickFindTakerCoinReply(u, reply)

\* the spawned thread: lp_coinfind of the maker coin, then run_maker_swap or
\* run_taker_swap with KickStart
KickFindMakerCoinReply(u, reply) ==
    /\ ks_spawned[u] = "find_maker_coin"
    /\ reply \in lp_coinfind_replies(my_swaps[u][1].swap.maker_coin[1])
    /\ ks_spawned' = [ks_spawned EXCEPT ![u] =
                          CASE reply = "Some" ->
                                  (IF my_swaps[u][1].swap.type = "Maker"
                                   THEN "run_maker_swap" ELSE "run_taker_swap")
                            [] reply = "None" -> "find_maker_coin"
                            [] reply = "Err" -> "returned"]
    /\ UNCHANGED <<swap_msgs, stats_db, p2p_out, my_swaps, ks_pc, ks_coins>>
    /\ UNCHANGED notNode

KickFindMakerCoin(u) == \E reply \in {"Some", "None", "Err"} : KickFindMakerCoinReply(u, reply)

\* the user activates a coin
KickActivateCoin(c) ==
    /\ ks_pc # "idle"
    /\ c \notin ks_active
    /\ ks_active' = ks_active \cup {c}
    /\ UNCHANGED nodeVars
    /\ UNCHANGED notKick

NextKick ==
    \/ SwapKickStarts
    \/ \E u \in Uuids : KickFindTakerCoin(u)
    \/ \E u \in Uuids : KickFindMakerCoin(u)
    \/ \E c \in KickTickers : KickActivateCoin(c)

SpecKick == InitKick /\ [][NextKick]_vars

\* the persisted swap records: the json files whose content is a SavedSwap
PersistedSwaps == {u \in Uuids : IsSome(my_swaps[u]) /\ IsJsonEntry(my_swaps[u][1])
                                    /\ my_swaps[u][1].parses}
Resumed == {u \in Uuids : ks_spawned[u] # "none"}

\* C13 as stated: every persisted swap whose record is not finished is
\* resumed, no finished one is, and the returned coins hold the maker and
\* the taker ticker of every resumed swap.
C13_EveryUnfinishedResumed ==
    ks_pc = "done" =>
        /\ \A u \in PersistedSwaps : ~my_swaps[u][1].swap.finished => u \in Resumed
        /\ \A u \in PersistedSwaps : my_swaps[u][1].swap.finished => u \notin Resumed
        /\ \A u \in Resumed : {my_swaps[u][1].swap.maker_coin[1],
                               my_swaps[u][1].swap.taker_coin[1]} \subseteq ks_coins

\* C13 amended: the swaps resumed are the persisted swaps whose record is
\* not finished and yields both its maker and its taker ticker; no other
\* swap is resumed, the returned coins are the tickers of the resumed swaps,
\* and only a resumed swap is run.
C13_UnfinishedWithTickersResumed ==
    ks_pc = "done" =>
        /\ \A u \in PersistedSwaps :
              u \in Resumed <=> /\ ~my_swaps[u][1].swap.finished
                                /\ IsSome(my_swaps[u][1].swap.maker_coin)
                                /\ IsSome(my_swaps[u][1].swap.taker_coin)
        /\ Resumed \subseteq PersistedSwaps
        /\ ks_coins = UNION {{my_swaps[u][1].swap.maker_coin[1],
                              my_swaps[u][1].swap.taker_coin[1]} : u \in Resumed}

\* one unfinished swap is run again while an unfinished record without a
\* maker ticker is left alone
C13_Witness ==
    /\ ks_pc = "done"
    /\ \E u \in Resumed : ks_spawned[u] \in {"run_maker_swap", "run_taker_swap"}
    /\ \E u \in PersistedSwaps : /\ ~my_swaps[u][1].swap.finished
                                 /\ ~IsSome(my_swaps[u][1].swap.maker_coin)
                                 /\ u \notin Resumed

(***************************************************************************)
(* broadcast_my_swap_status of mm2src/lp_swap.rs                           *)
(***************************************************************************)
\* the secret of a swap, and what is left of it once it is redacted
SwapSecret == <<5>>
RedactedSecret == <<0>>

\* MakerSavedSwap::hide_secret
hide_secret(swap) ==
    IF IsSome(swap.secret) THEN [swap EXCEPT !.secret = Some(RedactedSecret)] ELSE swap

\* the match of broadcast_my_swap_status on the status it has read
redact_status_nothing(status) == status

redact_status(status) ==
    IF status.type = "Taker" THEN status ELSE hide_secret(status)

\* the message broadcast_my_swap_status hands to broadcast_p2p_msg
P2pMsg(topic, status) == [topic |-> topic, method |-> "swapstatus", data |-> status]

\* the records the SWAPS/MY directory may hold for one uuid
StatusFiles(u) ==
    {None,
     Some(MyFile("json", FALSE, SavedSwap("Maker", u, None, None, FALSE, None))),
     Some(MyFile("json", TRUE, SavedSwap("Maker", u, Some("KMD"), Some("BTC"), FALSE, Some(SwapSecret)))),
     Some(MyFile("json", TRUE, SavedSwap("Maker", u, Some("KMD"), Some("BTC"), TRUE, Some(SwapSecret)))),
     Some(MyFile("json", TRUE, SavedSwap("Taker", u, Some("KMD"), Some("BTC"), FALSE, None))),
     Some(MyFile("json", TRUE, SavedSwap("Taker", u, Some("KMD"), Some("BTC"), TRUE, Some(SwapSecret))))}

InitStatus ==
    /\ \E f1 \in StatusFiles("uuid-1") : \E f2 \in StatusFiles("uuid-2") :
          my_swaps = [u \in Uuids |-> IF u = "uuid-1" THEN f1 ELSE f2]
    /\ stats_db = [k \in StatsKeys |-> None]
    /\ p2p_out = {}
    /\ swap_msgs = [u \in Uuids |-> None]
    /\ ks_pc = "idle" /\ ks_spawned = {} /\ ks_coins = {}
    /\ CoreIdle /\ WaitIdle /\ PfIdle /\ HfIdle /\ LateIdle

\* broadcast_my_swap_status(uuid, ctx); the write of save_stats_swap may fail
BroadcastMySwapStatus(uuid) ==
    /\ IsSome(my_swaps[uuid])
    /\ my_swaps[uuid][1].parses
    /\ \E write_ok \in BOOLEAN :
        \E status \in {redact_status(my_swaps[uuid][1].swap)} :
            IF write_ok
            THEN /\ stats_db' = save_stats_swap(stats_db, status)
                 /\ p2p_out' = p2p_out \cup {P2pMsg(uuid, status)}
            ELSE UNCHANGED <<stats_db, p2p_out>>
    /\ UNCHANGED <<swap_msgs, my_swaps, ks_pc, ks_spawned, ks_coins>>
    /\ UNCHANGED notNode

\* broadcast_my_swap_status on a uuid whose file is missing or does not
\* deserialize returns the error and leaves everything as it is
BroadcastMySwapStatusFails(uuid) ==
    /\ IF IsSome(my_swaps[uuid]) THEN ~my_swaps[uuid][1].parses ELSE TRUE
    /\ UNCHANGED nodeVars
    /\ UNCHANGED notNode

\* the swap goes on and its record in SWAPS/MY is written again
SwapRecordChanges(uuid) ==
    /\ \E f \in StatusFiles(uuid) \ {None} :
          /\ IsSome(my_swaps[uuid]) /\ my_swaps[uuid][1].parses /\ f[1].parses
          /\ f[1].swap.type = my_swaps[uuid][1].swap.type
          /\ ~my_swaps[uuid][1].swap.finished /\ f[1].swap.finished
          /\ my_swaps' = [my_swaps EXCEPT ![uuid] = f]
    /\ UNCHANGED <<swap_msgs, stats_db, p2p_out, ks_pc, ks_spawned, ks_coins>>
    /\ UNCHANGED notNode

NextStatus ==
    \/ \E u \in Uuids : BroadcastMySwapStatus(u)
    \/ \E u \in Uuids : BroadcastMySwapStatusFails(u)
    \/ \E u \in Uuids : SwapRecordChanges(u)

SpecStatus == InitStatus /\ [][NextStatus]_vars

\* the statuses that have left through broadcast_my_swap_status
StatusesOut ==
    {m.data : m \in p2p_out} \cup {stats_db[k][1] : k \in {x \in StatsKeys : IsSome(stats_db[x])}}

\* C14 as stated: every status stored in the stats database or broadcast,
\* of a maker or of a taker swap, has the secret redacted.
C14_SecretRedactedForMakerAndTaker ==
    \A status \in StatusesOut : status.secret \in {None, Some(RedactedSecret)}

\* C14 amended: every maker swap status stored or broadcast has the secret
\* redacted; a taker swap status is stored and broadcast as it is persisted.
C14_SecretRedactedForMaker ==
    /\ \A status \in StatusesOut :
          status.type = "Maker" => status.secret \in {None, Some(RedactedSecret)}
    /\ \A status \in StatusesOut :
          status.type = "Taker" =>
              \E f \in StatusFiles(status.uuid) \ {None} : f[1].parses /\ f[1].swap = status

\* a maker status was stored and broadcast while the record holds the secret
C14_Witness ==
    \E u \in Uuids :
        /\ IsSome(my_swaps[u]) /\ my_swaps[u][1].parses
        /\ my_swaps[u][1].swap.type = "Maker" /\ my_swaps[u][1].swap.secret = Some(SwapSecret)
        /\ IsSome(stats_db[<<"Maker", u>>])
        /\ \E m \in p2p_out : m.topic = u /\ m.data.type = "Maker"

(***************************************************************************)
(* Specification SpecMsg: the message stores of two swaps and the          *)
(* messages process_msg is called with                                     *)
(***************************************************************************)
\* the messages the peers send in the runs explored
MsgIncoming ==
    {SignedSwapMsg(m, p) :
        m \in {x \in SwapMsgs :
                \/ /\ x.variant = "Negotiation"
                   /\ x.negotiation.payment_locktime = 7800
                \/ /\ x.variant = "NegotiationReply"
                   /\ x.negotiation.payment_locktime = 7800
                   /\ x.negotiation.secret_hash = 5
                \/ x.variant = "MakerPayment" /\ x.bytes = <<1>>},
        p \in Peers}
        \cup {SwapStatusMsg(SavedSwap("Maker", "uuid-1", Some("KMD"), Some("BTC"), TRUE, None)),
              GarbageMsg}

MsgTopics == Uuids \cup {"not-a-uuid"}

InitMsg ==
    /\ swap_msgs = [u \in Uuids |-> None]
    /\ stats_db = [k \in StatsKeys |-> None]
    /\ p2p_out = {} /\ my_swaps = <<>>
    /\ ks_pc = "idle" /\ ks_spawned = {} /\ ks_coins = {}
    /\ CoreIdle /\ WaitIdle /\ PfIdle /\ HfIdle /\ LateIdle

\* a swap starts: init_msg_store with the uuid of the swap and the key of
\* the other side
MsgInitStore ==
    /\ \E u \in Uuids : \E p \in Peers :
          /\ ~IsSome(swap_msgs[u])
          /\ InitMsgStore(u, p)
    /\ pm_call' = None
    /\ UNCHANGED notMsg

\* a message arrives from the P2P network
MsgProcessMsg ==
    /\ \E topic \in MsgTopics : \E msg \in MsgIncoming :
          /\ ProcessMsg(topic, msg)
          /\ pm_call' = Some([topic |-> topic, msg |-> msg])
    /\ UNCHANGED notMsg

NextMsg == MsgInitStore \/ MsgProcessMsg

SpecMsg == InitMsg /\ [][NextMsg]_vars

\* the negotiation data a store holds
StoredNegotiation(msgs, u) ==
    IF IsSome(msgs[u]) THEN <<msgs[u][1].negotiation, msgs[u][1].negotiation_reply>>
    ELSE <<None, None>>

\* C15: once process_msg has stored a Negotiation or a NegotiationReply for
\* a swap uuid, no later incoming message changes the negotiation data
\* stored for that swap.
C15_NegotiationImmutable ==
    [][\A u \in Uuids :
          /\ IsSome(StoredNegotiation(swap_msgs, u)[1]) =>
                StoredNegotiation(swap_msgs', u)[1] = StoredNegotiation(swap_msgs, u)[1]
          /\ IsSome(StoredNegotiation(swap_msgs, u)[2]) =>
                StoredNegotiation(swap_msgs', u)[2] = StoredNegotiation(swap_msgs, u)[2]]_vars

(***************************************************************************)
(* Trade fee estimates: increase_dynamic_fee_by_stage,                     *)
(* preimage_trade_fee_required_to_send_outputs, get_sender_trade_fee       *)
(***************************************************************************)
FeeApproxStages == {"WithoutApprox", "StartSwap", "OrderIssue", "TradePreimage"}

\* num + round(num / 100 * percent), the percent given in tenths
increase_by_percent(num, percent_tenths) ==
    num + ((2 * num * percent_tenths + 1000) \div 2000)

increase_dynamic_fee_by_stage(base_percent, dynamic_fee, stage) ==
    CASE stage = "WithoutApprox" -> dynamic_fee
      [] stage = "StartSwap" -> increase_by_percent(dynamic_fee, 10 * base_percent)
      [] stage = "OrderIssue" -> increase_by_percent(dynamic_fee, 20 * base_percent)
      [] stage = "TradePreimage" -> increase_by_percent(dynamic_fee, 25 * base_percent)

PreimageErr(name) == [status |-> name, fee |-> 0]
PreimageOk(fee) == [status |-> "Ok", fee |-> fee]

\* the total fee of a generated transaction: the fee of a change output is
\* added when the transaction has none
PreimageTotalFee(tx_fee, r, outputs_count) ==
    IF Len(r.tx.outputs) # outputs_count THEN r.data.fee_amount
    ELSE IF tx_fee.kind = "Dynamic"
    THEN r.data.fee_amount + (tx_fee.amount * P2PKH_OUTPUT_LEN) \div KILO_BYTE
    ELSE IF (SerializedLen(Len(r.tx.inputs), r.tx.outputs) % KILO_BYTE) + P2PKH_OUTPUT_LEN > KILO_BYTE
    THEN r.data.fee_amount + tx_fee.amount
    ELSE r.data.fee_amount

PreimageResult(tx_fee, r, outputs_count) ==
    IF r.status # "Ok" THEN PreimageErr(r.status)
    ELSE PreimageOk(PreimageTotalFee(tx_fee, r, outputs_count))

\* w is the wallet: the coin, its tx_fee_volatility_percent and the unspents
\* list_unspent_ordered returns
preimage_trade_fee_required_to_send_outputs(w, outputs, fee_policy, gas_fee, stage) ==
    IF ~IsSome(w.coin.rpc_tx_fee) THEN PreimageErr("Transport")
    ELSE LET tx_fee == w.coin.rpc_tx_fee[1]
             actual_tx_fee ==
                 IF tx_fee.kind = "Dynamic"
                 THEN Dynamic(increase_dynamic_fee_by_stage(w.volatility, tx_fee.amount, stage))
                 ELSE tx_fee
             calls == {GenCall(w.coin, w.unspents, outputs, fee_policy,
                               Some(actual_tx_fee), gas_fee, None, None)}
         IN  CHOOSE res \in
                 {PreimageResult(c.fee[1], r, Len(c.outputs)) :
                     c \in calls, r \in {generate_transaction(d) : d \in calls}} :
                 TRUE

TradePreimageValue(kind, amount) == [kind |-> kind, amount |-> amount]

get_sender_trade_fee(w, value, stage) ==
    LET fee_policy == IF value.kind = "UpperBound" THEN DeductFromOutput(0) ELSE SendExact
    IN  CHOOSE res \in
            {preimage_trade_fee_required_to_send_outputs(w, outputs, fee_policy, None, stage) :
                outputs \in {generate_swap_payment_outputs(Pub(11), w.coin.ticker, w.now,
                                                          Bytes(33, 0), Bytes(20, 0), value.amount)}} :
            TRUE

(***************************************************************************)
(* Specification SpecPreimage: the estimates for two amounts x < y on one  *)
(* wallet                                                                  *)
(***************************************************************************)
\* the amounts estimated are MinTradeAmount..MaxTradeAmount
MinTradeAmount == 36
MaxTradeAmount == 44

PfUtxoLists ==
    UNION {{[k \in 1..n |-> [outpoint |-> k, value |-> v[k]]] :
               v \in {w \in [1..n -> {30, 60}] : \A k \in 1..(n - 1) : w[k] <= w[k + 1]}} :
           n \in 1..2}

PfWallets ==
    {[coin |-> GenCoin("BTC", "Standard", force, Some(15), Some(fee)), volatility |-> 10,
      unspents |-> u, now |-> 70000] :
        force \in BOOLEAN, fee \in {Dynamic(64), FixedPerKb(7)}, u \in PfUtxoLists}

PfCalls ==
    {[wallet |-> w, stage |-> s, kind |-> k, x |-> x, y |-> y] :
        w \in PfWallets, s \in FeeApproxStages,
        k \in {"Exact", "UpperBound"},
        x \in MinTradeAmount..MaxTradeAmount, y \in MinTradeAmount..MaxTradeAmount}

InitPreimage ==
    /\ pf_args \in {Some(c) : c \in {d \in PfCalls : d.x < d.y}}
    /\ pf_result = None
    /\ CoreIdle /\ NodeIdle /\ WaitIdle /\ HfIdle /\ LateIdle

\* get_sender_trade_fee for x and for y, the wallet unchanged between
GetSenderTradeFees ==
    /\ pf_result = None
    /\ \E a \in {pf_args[1]} :
           pf_result' = Some([k \in {"x", "y"} |->
                                 get_sender_trade_fee(a.wallet, TradePreimageValue(a.kind, a[k]),
                                                      a.stage)])
    /\ UNCHANGED pf_args
    /\ UNCHANGED notPf

NextPreimage == GetSenderTradeFees

SpecPreimage == InitPreimage /\ [][NextPreimage]_vars

\* C16: on one wallet (unspents, fee rate, stage), for amounts 0 < x < y
\* whose estimates both succeed, the trade fee estimated for x is not above
\* the one estimated for y, with a Dynamic and with a FixedPerKb fee.
C16_FeeMonotonic ==
    IsSome(pf_result) /\ pf_result[1].x.status = "Ok" /\ pf_result[1].y.status = "Ok"
        => pf_result[1].x.fee <= pf_result[1].y.fee

(***************************************************************************)
(* Properties of the transaction generator: NotEnoughUtxos                 *)
(***************************************************************************)
\* the total of the supplied unspents
GenTotalUtxos(a) == SumSeq([k \in 1..Len(a.utxos) |-> a.utxos[k].value])

\* the requested outputs and the gas fee of the contract calls
GenRequestedValue(a) == SumSeq([i \in 1..Len(a.outputs) |-> a.outputs[i].value]) + UnwrapOr(a.gas_fee, 0)

\* the fee rate and the relay fee are known to the call
GenFeeKnown(a) ==
    /\ IsSome(a.fee) \/ IsSome(a.coin.rpc_tx_fee)
    /\ a.coin.force_min_relay_fee => IsSome(a.coin.rpc_relay_fee)

\* the fee of the transaction spending every supplied unspent, as SendExact
\* computes it: when the unspents cover the outputs and the fee of the bare
\* transaction, that fee is raised by the fee of a change output if the
\* leftover is above dust and then raised to the relay fee
GenFullFee(a) ==
    LET coin_tx_fee == IF IsSome(a.fee) THEN a.fee[1] ELSE a.coin.rpc_tx_fee[1]
        base == BaseTxFee(coin_tx_fee, a.coin.addr_format, Len(a.utxos), a.outputs)
        left == GenTotalUtxos(a) - GenRequestedValue(a) - base
        with_change == IF left > a.coin.dust_amount THEN base + ChangeOutputFee(coin_tx_fee)
                       ELSE base
    IN  IF left < 0 THEN base
        ELSE IF a.coin.force_min_relay_fee /\ with_change < a.coin.rpc_relay_fee[1]
        THEN a.coin.rpc_relay_fee[1]
        ELSE with_change

GenUncovered(a) == GenFeeKnown(a) /\ GenTotalUtxos(a) < GenRequestedValue(a) + GenFullFee(a)

\* a successful result spends at least its outputs, fee_amount and gas fee,
\* the KMD interest it claims counted with the inputs
GenInputsCoverOutputs ==
    gtx_result.status = "Ok" =>
        InputsValue(gtx_result) + UnwrapOr(gtx_result.data.kmd_rewards, 0)
            >= OutputsValue(gtx_result) + gtx_result.data.fee_amount
               + UnwrapOr(gtx_args.gas_fee, 0)

GenCallCounted(a, res) ==
    /\ GenFeeKnown(a)
    /\ res.status \notin {"Pending", "EmptyOutputs", "OutputValueLessThanDust", "EmptyUtxoSet",
                          "Panic", "DeductFeeFromOutputFailed"}

GenLeftover(a, res) ==
    res.data.spent_by_me - GenRequestedValue(a)
        - (IF a.fee_policy.kind = "SendExact" THEN res.data.fee_amount ELSE 0)

\* the requested outputs as the transaction holds them
GenKeptOutputs(a, res) ==
    [i \in 1..Len(a.outputs) |->
        IF a.fee_policy.kind = "DeductFromOutput" /\ i = a.fee_policy.idx + 1
        THEN [a.outputs[i] EXCEPT !.value = @ - res.data.fee_amount]
        ELSE a.outputs[i]]

GenChangeOutput(a, res) ==
    [value |-> GenLeftover(a, res), script_pubkey |-> build_p2pkh(a.coin.my_address_hash)]

\* what the requested outputs pay to the sender
GenKeptToMe(a, res) ==
    SumSeq([i \in 1..Len(a.outputs) |->
               IF a.outputs[i].script_pubkey = build_p2pkh(a.coin.my_address_hash)
               THEN GenKeptOutputs(a, res)[i].value ELSE 0])

GenUnusedChangeRule(a, res) ==
    /\ GenLeftover(a, res) > a.coin.dust_amount => res.data.unused_change = None
    /\ (GenLeftover(a, res) > 0 /\ GenLeftover(a, res) <= a.coin.dust_amount)
           => res.data.unused_change = Some(GenLeftover(a, res))

GenChangeOutputRule(a, res) ==
    /\ GenLeftover(a, res) > a.coin.dust_amount
           => /\ res.tx.outputs = Append(GenKeptOutputs(a, res), GenChangeOutput(a, res))
              /\ res.data.received_by_me = GenKeptToMe(a, res) + GenLeftover(a, res)
    /\ (GenLeftover(a, res) > 0 /\ GenLeftover(a, res) <= a.coin.dust_amount)
           => res.tx.outputs = GenKeptOutputs(a, res)

GenPrefixSum(a, k) == SumSeq([j \in 1..k |-> a.utxos[j].value])

\* the number of unspents, taken in order, whose sum first covers the
\* requested outputs and the gas fee; 0 when all of them do not
GenCoverCount(a) ==
    LET covering == {k \in 1..Len(a.utxos) : GenPrefixSum(a, k) >= GenRequestedValue(a)}
    IN  IF covering = {} THEN 0 ELSE CHOOSE k \in covering : \A j \in covering : k <= j

\* the fee a DeductFromOutput call takes from the output: the fee of the
\* transaction with the covering inputs, raised by the fee of a change
\* output when the leftover is above dust and then to the relay fee; the fee
\* of the transaction with every input when the outputs are not covered
GenDeductFee(a) ==
    LET coin_tx_fee == IF IsSome(a.fee) THEN a.fee[1] ELSE a.coin.rpc_tx_fee[1]
        k == GenCoverCount(a)
        n == IF k = 0 THEN Len(a.utxos) ELSE k
        base == BaseTxFee(coin_tx_fee, a.coin.addr_format, n, a.outputs)
        with_change == IF GenPrefixSum(a, n) - GenRequestedValue(a) > a.coin.dust_amount
                       THEN base + ChangeOutputFee(coin_tx_fee)
                       ELSE base
    IN  IF k = 0 THEN base
        ELSE IF a.coin.force_min_relay_fee /\ with_change < a.coin.rpc_relay_fee[1]
        THEN a.coin.rpc_relay_fee[1]
        ELSE with_change

\* the call names an output of the request under DeductFromOutput
GenDeductCall(a) ==
    /\ a.fee_policy.kind = "DeductFromOutput"
    /\ a.fee_policy.idx + 1 <= Len(a.outputs)
    /\ GenFeeKnown(a)

GenCannotAbsorb(a) ==
    a.outputs[a.fee_policy.idx + 1].value < GenDeductFee(a) + a.coin.dust_amount

\* inputs are added until they cover the outputs alone
GenDeductInputs(a, res) ==
    /\ Len(res.tx.inputs) = GenCoverCount(a)
    /\ res.data.fee_amount = GenDeductFee(a)

C20_FeeAtLeastRelayFee ==
    /\ (gtx_args.coin.force_min_relay_fee /\ gtx_result.status = "Ok")
           => gtx_result.data.fee_amount >= gtx_args.coin.rpc_relay_fee[1]
    /\ (IsSome(hf_result) /\ hf_args[1].force_min_relay_fee)
           => (IF hf_result[1].status = "Ok"
               THEN hf_result[1].fee >= hf_args[1].rpc_relay_fee[1]
               ELSE TRUE)

\* both fees computed below the relay fee and raised to it
C20_Witness ==
    /\ gtx_args.coin.force_min_relay_fee
    /\ gtx_result.status = "Ok"
    /\ IsSome(gtx_args.fee)
    /\ gtx_result.data.fee_amount = gtx_args.coin.rpc_relay_fee[1]
    /\ IsSome(hf_result)
    /\ hf_result[1].status = "Ok"
    /\ hf_args[1].rpc_tx_fee[1].kind = "FixedPerKb"
    /\ hf_args[1].rpc_tx_fee[1].amount < hf_args[1].rpc_relay_fee[1]
    /\ hf_result[1].fee = hf_args[1].rpc_relay_fee[1]

(***************************************************************************)
(* Typed errors                                                            *)
(***************************************************************************)
\* C21: generate_transaction ends every call with a typed result: a success
\* or one of the GenerateTxError values, never a panic, also for a
\* DeductFromOutput index beyond the requested outputs
C21_TypedErrorNeverPanic ==
    gtx_result.status # "Panic"

(***************************************************************************)
(* Specification SpecInterest: one calc_interest_if_required call on a     *)
(* transaction and its additional data                                     *)
(***************************************************************************)
CiTickers == {"BTC", "RICK", "KMD"}

CiTxs ==
    {[inputs |-> [k \in 1..n |-> [previous_output |-> k, amount |-> 50]], outputs |-> o,
      lock_time |-> 10000] :
        n \in 0..2,
        o \in {<<Out(25, OtherScriptPubkey)>>,
               <<Out(25, OtherScriptPubkey), Out(11, MyScriptPubkey)>>,
               <<Out(25, MyScriptPubkey), Out(0, OpReturnScript)>>}}

CiData ==
    {[fee_amount |-> 14, received_by_me |-> r, spent_by_me |-> 50, unused_change |-> u,
      kmd_rewards |-> None] : r \in {0, 11}, u \in {None, Some(3)}}

CiCalls ==
    {[call |-> GenCall(GenCoin(t, "Standard", FALSE, Some(15), Some(Dynamic(64))), <<>>, <<>>,
                       SendExact, None, None, mtp, interest),
      unsigned |-> tx, data |-> d] :
        t \in CiTickers, mtp \in {None, Some(9000)}, interest \in {None, Some(0), Some(2)},
        tx \in CiTxs, d \in CiData}

InitInterest ==
    /\ ci_args \in {Some(c) : c \in CiCalls}
    /\ ci_rpc = <<>>
    /\ ci_result = None
    /\ CoreIdle /\ MidIdle /\ HlIdle /\ KaIdle /\ TailIdle

CalcInterestIfRequired ==
    /\ ci_result = None
    /\ \E c \in {ci_args[1]} :
        /\ ci_result' = Some(calc_interest_if_required(c.call, c.unsigned, c.data,
                                                       build_p2pkh(c.call.coin.my_address_hash)))
        /\ ci_rpc' = calc_interest_rpc_requests(c.call, c.unsigned)
    /\ UNCHANGED ci_args
    /\ UNCHANGED notCi

NextInterest == CalcInterestIfRequired

SpecInterest == InitInterest /\ [][NextInterest]_vars

\* C22: for a coin whose ticker is not KMD, calc_interest_if_required
\* succeeds with the transaction (inputs, outputs, lock_time) and the
\* additional data it was given, unchanged, and makes no RPC request
C22_OtherCoinsUnaffected ==
    (IsSome(ci_result) /\ ci_args[1].call.coin.ticker # "KMD")
        => /\ ci_result[1].status = "Ok"
           /\ ci_result[1].tx = ci_args[1].unsigned
           /\ ci_result[1].data = ci_args[1].data
           /\ ci_rpc = <<>>

\* a call for another coin whose node would fail both requests, next to a
\* KMD call that claims interest
C22_Witness ==
    /\ IsSome(ci_result)
    /\ ci_args[1].call.coin.ticker = "RICK"
    /\ ci_args[1].call.rpc_mtp = None
    /\ ci_args[1].call.rpc_input_interest = None
    /\ Len(ci_args[1].unsigned.inputs) = 2
    /\ ci_result[1].status = "Ok"

(***************************************************************************)
(* Specification SpecHistory: process_history_loop, one step per await     *)
(***************************************************************************)
\* hl_retries counts the Retry answers in a row up to MaxRetries
MaxRetries == 3

HISTORY_RETRY_SECS == 10
HISTORY_IDLE_SECS == 30

HlTxIds == {1, 2}
HlHeights == {0, 5}
HlBalances == {7, 8}

\* the history files load_history_from_file may return
HlHistories ==
    {<<>>} \cup {[t \in {1} |-> h] : h \in HlHeights}

\* the lists of (txid, height) request_tx_history may return
HlTxIdLists ==
    {<<>>, <<[txid |-> 1, height |-> 5]>>,
     <<[txid |-> 1, height |-> 0], [txid |-> 2, height |-> 5]>>}

RequestTxHistoryResults == {"Ok", "Retry", "HistoryTooLarge", "UnknownError"}

\* where the loop goes after an answer of request_tx_history
AfterRetry_Stops == [pc |-> "stopped", sleep |-> 0]

AfterRetry == [pc |-> "sleep", sleep |-> HISTORY_RETRY_SECS]

AfterRequest(result) ==
    CASE result = "Ok" -> [pc |-> "process", sleep |-> 0]
      [] result = "Retry" -> AfterRetry
      [] result = "HistoryTooLarge" -> [pc |-> "stopped", sleep |-> 0]
      [] result = "UnknownError" -> [pc |-> "stopped", sleep |-> 0]

InitHistory ==
    /\ hl_pc = "load"
    /\ hl_sleep = 0
    /\ hl_ctx_stopping = FALSE
    /\ hl_coin_enabled = TRUE
    /\ hl_last = "None"
    /\ hl_io = "ok"
    /\ hl_sync_state = "NotStarted"
    /\ hl_my_balance = None
    /\ hl_actual_balance = None
    /\ hl_history_map = <<>>
    /\ hl_tx_ids = <<>>
    /\ hl_left = 0
    /\ hl_retries = 0
    /\ CoreIdle /\ MidIdle /\ CiIdle /\ KaIdle /\ TailIdle

\* load_history_from_file
HlLoad ==
    /\ hl_pc = "load"
    /\ \/ /\ hl_history_map' \in HlHistories
          /\ hl_pc' = "loop"
          /\ UNCHANGED hl_io
       \/ /\ hl_io' = "load_failed"
          /\ hl_pc' = "stopped"
          /\ UNCHANGED hl_history_map
    /\ UNCHANGED <<hl_sleep, hl_ctx_stopping, hl_coin_enabled, hl_last, hl_sync_state,
                   hl_my_balance, hl_actual_balance, hl_tx_ids, hl_left, hl_retries>>
    /\ UNCHANGED notHl

\* the head of the loop: ctx.is_stopping() and the coin's presence
HlLoopHead ==
    /\ hl_pc = "loop"
    /\ hl_pc' = IF hl_ctx_stopping \/ ~hl_coin_enabled THEN "stopped" ELSE "balance"
    /\ UNCHANGED <<hl_sleep, hl_ctx_stopping, hl_coin_enabled, hl_last, hl_io, hl_sync_state,
                   hl_my_balance, hl_actual_balance, hl_history_map, hl_tx_ids, hl_left,
                   hl_retries>>
    /\ UNCHANGED notHl

\* my_balance() and the test whether the history has to be requested;
\* need_update is whether a stored transaction should_update
HlBalance ==
    /\ hl_pc = "balance"
    /\ \E actual \in {None} \cup {Some(b) : b \in HlBalances},
          need_update \in {u \in BOOLEAN : u => hl_history_map # <<>>} :
        /\ hl_actual_balance' = actual
        /\ IF IsSome(hl_my_balance) /\ IsSome(actual) /\ hl_my_balance = actual /\ ~need_update
           THEN hl_pc' = "sleep" /\ hl_sleep' = HISTORY_IDLE_SECS
           ELSE hl_pc' = "request" /\ hl_sleep' = 0
    /\ UNCHANGED <<hl_ctx_stopping, hl_coin_enabled, hl_last, hl_io, hl_sync_state,
                   hl_my_balance, hl_history_map, hl_tx_ids, hl_left, hl_retries>>
    /\ UNCHANGED notHl

\* request_tx_history and the match on its answer
HlRequest ==
    /\ hl_pc = "request"
    /\ \E result \in RequestTxHistoryResults, tx_ids \in HlTxIdLists :
        /\ hl_last' = result
        /\ hl_pc' = AfterRequest(result).pc
        /\ hl_sleep' = AfterRequest(result).sleep
        /\ hl_retries' = IF result = "Retry"
                         THEN (IF hl_retries < MaxRetries THEN hl_retries + 1 ELSE hl_retries)
                         ELSE 0
        /\ hl_tx_ids' = IF result = "Ok" THEN tx_ids ELSE <<>>
        /\ hl_left' = IF result = "Ok" /\ Len(tx_ids) > Cardinality(DOMAIN hl_history_map)
                      THEN Len(tx_ids) - Cardinality(DOMAIN hl_history_map)
                      ELSE 0
        /\ hl_sync_state' = CASE result = "Ok" -> "InProgress"
                              [] result = "HistoryTooLarge" -> "Error"
                              [] OTHER -> hl_sync_state
    /\ UNCHANGED <<hl_ctx_stopping, hl_coin_enabled, hl_io, hl_my_balance, hl_actual_balance,
                   hl_history_map>>
    /\ UNCHANGED notHl

\* the history_map after the next (txid, height) pair: a new transaction is
\* stored when tx_details_by_hash answers, a stored one gets the height of
\* its block or is fetched again
HlEntry(map, id, details_ok, refetch) ==
    IF id.txid \notin DOMAIN map
    THEN (IF details_ok
          THEN [t \in DOMAIN map \cup {id.txid} |-> IF t = id.txid THEN id.height ELSE map[t]]
          ELSE map)
    ELSE IF map[id.txid] = 0 /\ id.height > 0 THEN [map EXCEPT ![id.txid] = id.height]
    ELSE map

HlUpdated(map, id, details_ok, refetch) ==
    \/ HlEntry(map, id, details_ok, refetch) # map
    \/ id.txid \in DOMAIN map /\ refetch /\ details_ok

\* one (txid, height) pair of the answer, and the save of the history file
\* when the pair updated the history
HlProcessTx ==
    /\ hl_pc = "process"
    /\ hl_tx_ids # <<>>
    /\ \E details_ok \in BOOLEAN, refetch \in BOOLEAN, save_ok \in BOOLEAN :
        LET id == Head(hl_tx_ids)
            updated == HlUpdated(hl_history_map, id, details_ok, refetch)
        IN  /\ hl_history_map' = HlEntry(hl_history_map, id, details_ok, refetch)
            /\ hl_left' = IF id.txid \notin DOMAIN hl_history_map /\ details_ok /\ hl_left > 0
                          THEN hl_left - 1 ELSE hl_left
            /\ IF updated /\ ~save_ok
               THEN hl_io' = "save_failed" /\ hl_pc' = "stopped"
               ELSE UNCHANGED <<hl_io, hl_pc>>
    /\ hl_tx_ids' = Tail(hl_tx_ids)
    /\ UNCHANGED <<hl_sleep, hl_ctx_stopping, hl_coin_enabled, hl_last, hl_sync_state,
                   hl_my_balance, hl_actual_balance, hl_retries>>
    /\ UNCHANGED notHl

\* the end of an iteration that went through the whole answer
HlFinish ==
    /\ hl_pc = "process"
    /\ hl_tx_ids = <<>>
    /\ hl_sync_state' = "Finished"
    /\ hl_my_balance' = hl_actual_balance
    /\ hl_pc' = "sleep"
    /\ hl_sleep' = HISTORY_IDLE_SECS
    /\ UNCHANGED <<hl_ctx_stopping, hl_coin_enabled, hl_last, hl_io, hl_actual_balance,
                   hl_history_map, hl_tx_ids, hl_left, hl_retries>>
    /\ UNCHANGED notHl

\* Timer::sleep is over: continue
HlWake ==
    /\ hl_pc = "sleep"
    /\ hl_pc' = "loop"
    /\ hl_sleep' = 0
    /\ UNCHANGED <<hl_ctx_stopping, hl_coin_enabled, hl_last, hl_io, hl_sync_state,
                   hl_my_balance, hl_actual_balance, hl_history_map, hl_tx_ids, hl_left,
                   hl_retries>>
    /\ UNCHANGED notHl

\* the node is stopped, or the coin is disabled, while the loop runs
HlCtxStop ==
    /\ hl_pc \notin {"idle", "stopped"}
    /\ ~hl_ctx_stopping
    /\ hl_ctx_stopping' = TRUE
    /\ UNCHANGED <<hl_pc, hl_sleep, hl_coin_enabled, hl_last, hl_io, hl_sync_state,
                   hl_my_balance, hl_actual_balance, hl_history_map, hl_tx_ids, hl_left,
                   hl_retries>>
    /\ UNCHANGED notHl

HlDisableCoin ==
    /\ hl_pc \notin {"idle", "stopped"}
    /\ hl_coin_enabled
    /\ hl_coin_enabled' = FALSE
    /\ UNCHANGED <<hl_pc, hl_sleep, hl_ctx_stopping, hl_last, hl_io, hl_sync_state,
                   hl_my_balance, hl_actual_balance, hl_history_map, hl_tx_ids, hl_left,
                   hl_retries>>
    /\ UNCHANGED notHl

HlLoopStep ==
    HlLoad \/ HlLoopHead \/ HlBalance \/ HlRequest \/ HlProcessTx \/ HlFinish \/ HlWake

NextHistory == HlLoopStep \/ HlCtxStop \/ HlDisableCoin

SpecHistory == InitHistory /\ [][NextHistory]_vars

\* the executor runs the loop's task whenever it can take a step
FairSpecHistory == SpecHistory /\ WF_vars(HlLoopStep)

\* the loop has returned for one of the reasons it may return for
HlStoppedForReason ==
    hl_pc = "stopped"
        => \/ hl_ctx_stopping
           \/ ~hl_coin_enabled
           \/ hl_last = "HistoryTooLarge" /\ hl_sync_state = "Error"
           \/ hl_last = "UnknownError"
           \/ hl_io \in {"load_failed", "save_failed"}

\* a Retry answer is followed by a sleep of 10 seconds
HlRetrySleeps ==
    (hl_pc = "request" /\ hl_pc' # "request" /\ hl_last' = "Retry")
        => (hl_pc' = "sleep" /\ hl_sleep' = HISTORY_RETRY_SECS)

HlInRetrySleep == hl_pc = "sleep" /\ hl_last = "Retry" /\ hl_sleep = HISTORY_RETRY_SECS

\* C23: the history loop returns only when the context is stopping, the coin
\* is no longer enabled, the server answered HistoryTooLarge (the sync state
\* then Error) or an unknown error, or the history file could not be loaded
\* or saved; a Retry answer puts it to sleep for 10 seconds, after which it
\* requests the history again unless the context stops or the coin is
\* disabled, however many Retry answers came before
C23_RetryNeverEndsTheLoop ==
    /\ []HlStoppedForReason
    /\ [][HlRetrySleeps]_vars
    /\ (HlInRetrySleep ~> (hl_pc = "balance" \/ hl_ctx_stopping \/ ~hl_coin_enabled))

\* the loop asleep after MaxRetries Retry answers in a row, the context
\* running and the coin enabled
C23_Witness ==
    /\ HlInRetrySleep
    /\ hl_retries = MaxRetries
    /\ ~hl_ctx_stopping
    /\ hl_coin_enabled
    /\ hl_history_map # <<>>

(***************************************************************************)
(* Kick-started swaps and the activation of their coins                    *)
(***************************************************************************)
\* swap_kick_starts runs, and each spawned thread goes on when lp_coinfind
\* finds its coin
FairSpecKick ==
    /\ SpecKick
    /\ WF_vars(SwapKickStarts)
    /\ \A u \in Uuids : WF_vars(KickFindTakerCoinReply(u, "Some"))
    /\ \A u \in Uuids : WF_vars(KickFindMakerCoinReply(u, "Some"))

KickUnfinished(u) ==
    u \in PersistedSwaps /\ ~my_swaps[u][1].swap.finished

KickRunning(u) == ks_spawned[u] \in {"run_maker_swap", "run_taker_swap"}

\* the tickers the record of u yields
KickTickersOf(u) ==
    {t[1] : t \in {c \in {my_swaps[u][1].swap.maker_coin, my_swaps[u][1].swap.taker_coin} :
                     IsSome(c)}}

KickBothActive(u) ==
    /\ IsSome(my_swaps[u][1].swap.maker_coin)
    /\ IsSome(my_swaps[u][1].swap.taker_coin)
    /\ KickTickersOf(u) \subseteq ks_active

\* run_maker_swap / run_taker_swap is not invoked before both coins are found
KickRunsOnlyWithCoins ==
    \A u \in Uuids : KickRunning(u) => (KickUnfinished(u) /\ KickBothActive(u))

GenExactFee(a, k) ==
    LET coin_tx_fee == IF IsSome(a.fee) THEN a.fee[1] ELSE a.coin.rpc_tx_fee[1]
        base == BaseTxFee(coin_tx_fee, a.coin.addr_format, k, a.outputs)
        left == GenPrefixSum(a, k) - GenRequestedValue(a) - base
        with_change == IF left > a.coin.dust_amount THEN base + ChangeOutputFee(coin_tx_fee)
                       ELSE base
    IN  IF left < 0 THEN base
        ELSE IF a.coin.force_min_relay_fee /\ with_change < a.coin.rpc_relay_fee[1]
        THEN a.coin.rpc_relay_fee[1]
        ELSE with_change

\* the prefixes of the unspents whose sum covers the outputs plus the fee
\* recomputed for the prefix
GenExactPrefixes(a) ==
    {k \in 1..Len(a.utxos) : GenPrefixSum(a, k) >= GenRequestedValue(a) + GenExactFee(a, k)}

GenExactCall(a) == a.fee_policy.kind = "SendExact" /\ GenFeeKnown(a)

\* C25: under SendExact the unspents are added in the order supplied up to
\* the first prefix whose sum covers the outputs plus the fee recomputed for
\* that prefix; the inputs of the result are exactly that prefix
C25_SendExactShortestPrefix ==
    (GenExactCall(gtx_args) /\ gtx_result.status = "Ok")
        => /\ Len(gtx_result.tx.inputs) \in GenExactPrefixes(gtx_args)
           /\ \A k \in GenExactPrefixes(gtx_args) : Len(gtx_result.tx.inputs) <= k
           /\ \A j \in 1..Len(gtx_result.tx.inputs) :
                 /\ gtx_result.tx.inputs[j].previous_output = gtx_args.utxos[j].outpoint
                 /\ gtx_result.tx.inputs[j].amount = gtx_args.utxos[j].value

\* two of three unspents are spent: the first alone does not cover the
\* outputs plus the fee, the first two do
C25_Witness ==
    /\ GenExactCall(gtx_args)
    /\ gtx_result.status = "Ok"
    /\ Len(gtx_args.utxos) = 3
    /\ Len(gtx_result.tx.inputs) = 2
    /\ gtx_args.utxos[1].value >= GenRequestedValue(gtx_args)

Max2(x, y) == IF x >= y THEN x ELSE y

(***************************************************************************)
(* Refunds of an HTLC: can_refund_htlc, send_taker_refunds_payment,        *)
(* send_maker_refunds_payment                                              *)
(***************************************************************************)
\* a u32 in little-endian bytes, minus one
U32LeMinusOne(b) ==
    LET i == CHOOSE i \in 1..4 : b[i] > 0 /\ \A j \in 1..(i - 1) : b[j] = 0
    IN  [j \in 1..4 |-> IF j < i THEN 255 ELSE IF j = i THEN b[j] - 1 ELSE b[j]]

LockTimeErr == [status |-> "Rpc", lock_time |-> 0]
LockTimeOk(t) == [status |-> "Ok", lock_time |-> t]

\* a lock time that ignores the HTLC
p2sh_tx_locktime_NoMax(ticker, now_secs, mtp_reply, htlc_locktime) ==
    IF ticker = "KMD" THEN LockTimeOk(now_secs - 3600 + 2 * 777)
    ELSE IF ~IsSome(mtp_reply) THEN LockTimeErr
    ELSE LockTimeOk(mtp_reply[1] - 1)

\* p2sh_tx_locktime at the clock now_secs; mtp_reply is what get_current_mtp
\* answers, asked for other coins than KMD
p2sh_tx_locktime(ticker, now_secs, mtp_reply, htlc_locktime) ==
    IF ticker = "KMD" THEN LockTimeOk(Max2(now_secs - 3600 + 2 * 777, htlc_locktime))
    ELSE IF ~IsSome(mtp_reply) THEN LockTimeErr
    ELSE LockTimeOk(Max2(mtp_reply[1] - 1, htlc_locktime))

CanRefundErr == [status |-> "Rpc", wait |-> 0]
CanRefundNow == [status |-> "CanRefundNow", wait |-> 0]
HaveToWait(secs) == [status |-> "HaveToWait", wait |-> secs]

\* a can_refund_htlc that does not look at the clock
can_refund_htlc_NoClock(a) ==
    IF ~IsSome(a.mtp[1]) THEN CanRefundErr
    ELSE LET mtp == a.mtp[1][1]
             locktime == p2sh_tx_locktime(a.coin.ticker, a.now, a.mtp[2], a.time_lock)
         IN  IF locktime.status # "Ok" THEN CanRefundErr
             ELSE IF locktime.lock_time < mtp THEN CanRefundNow
             ELSE HaveToWait(Max2(locktime.lock_time - mtp + 1, 3600))

\* can_refund_htlc; a.mtp are the answers of the successive get_current_mtp
\* requests
can_refund_htlc(a) ==
    IF a.now < a.time_lock
    THEN HaveToWait(Max2(a.time_lock - a.now + 1, 3600))
    ELSE IF ~IsSome(a.mtp[1]) THEN CanRefundErr
    ELSE LET mtp == a.mtp[1][1]
             locktime == p2sh_tx_locktime(a.coin.ticker, a.now, a.mtp[2], a.time_lock)
         IN  IF locktime.status # "Ok" THEN CanRefundErr
             ELSE IF locktime.lock_time < mtp THEN CanRefundNow
             ELSE HaveToWait(Max2(locktime.lock_time - mtp + 1, 3600))

RefundErr(name) ==
    [status |-> name, lock_time |-> 0, sequence |-> <<0, 0, 0, 0>>, amount |-> 0,
     output_value |-> 0, script_data |-> <<>>, redeem_script |-> <<>>]

\* p2sh_spending_tx of the first output of prev_tx; mtp_reply answers the
\* get_current_mtp request of p2sh_tx_locktime
p2sh_spending_tx(a, mtp_reply, redeem_script, output_value, script_data, sequence, lock_time) ==
    LET locktime == p2sh_tx_locktime(a.coin.ticker, a.now, mtp_reply, lock_time)
    IN  IF locktime.status # "Ok" THEN RefundErr("Rpc")
        ELSE [status |-> "Ok", lock_time |-> locktime.lock_time, sequence |-> sequence,
              amount |-> a.prev_outputs[1], output_value |-> output_value,
              script_data |-> script_data, redeem_script |-> redeem_script]

\* what send_taker_refunds_payment and send_maker_refunds_payment do once
\* the redeem script is built.  An HTLC value below the fee overflows the
\* subtraction: the call panics or goes on with the value wrapped modulo
\* 2^64, which the negative output_value stands for.
send_refunds_payment(a, redeem_script) ==
    IF a.fault = "deserialize" THEN {RefundErr("Deserialize")}
    ELSE IF ~PublicFromSliceOk(a.other_pub) THEN {RefundErr("PublicKey")}
    ELSE LET fee == get_htlc_spend_fee(a.coin)
         IN  IF fee.status # "Ok" THEN {RefundErr("Rpc")}
             ELSE IF a.prev_outputs = <<>> THEN {RefundErr("Panic")}
             ELSE LET built == p2sh_spending_tx(a, a.send_mtp, redeem_script,
                                                a.prev_outputs[1] - fee.fee, <<OP_1>>,
                                                U32LeMinusOne(SEQUENCE_FINAL), a.time_lock)
                      broadcast == IF built.status = "Ok" /\ a.fault = "send_transaction"
                              THEN RefundErr("Rpc") ELSE built
                  IN  IF a.prev_outputs[1] < fee.fee
                      THEN {RefundErr("Panic"), broadcast}
                      ELSE {broadcast}

RfNows == {10000, 20000}
RfTimeLocks == {8000, 10000, 10001, 19000, 30000}
RfMtps == {7000, 9000, 12000}
RfMtpReplies == {None} \cup {Some(m) : m \in RfMtps}

\* the median time past never goes back from one request to the next
RfMtpPairs ==
    {p \in RfMtpReplies \X RfMtpReplies : (IsSome(p[1]) /\ IsSome(p[2])) => p[1][1] <= p[2][1]}

RfCalls ==
    {[coin |-> GenCoin(ticker, "Standard", FALSE, None,
                       IF fault = "fee" THEN None ELSE Some(Dynamic(64))),
      now |-> t, time_lock |-> tl, mtp |-> mtp, send_mtp |-> send_mtp,
      prev_outputs |-> prev, fault |-> IF fault = "pubkey" THEN "none" ELSE fault,
      other_pub |-> IF fault = "pubkey" THEN <<2>> ELSE Pub(2),
      side |-> side] :
        ticker \in {"KMD", "BTC"}, t \in RfNows, tl \in RfTimeLocks, mtp \in RfMtpPairs,
        send_mtp \in RfMtpReplies, prev \in {<<>>, <<10>>, <<1000>>},
        fault \in {"none", "deserialize", "pubkey", "fee", "send_transaction"},
        side \in {"taker", "maker"}}

InitRefund ==
    /\ rf_args \in {Some(a) : a \in RfCalls}
    /\ rf_can = None
    /\ rf_tx = None
    /\ CoreIdle /\ MidIdle /\ CiIdle /\ HlIdle /\ KaIdle /\ RrIdle /\ PmIdle /\ LoIdle

CanRefundHtlc ==
    /\ rf_can = None
    /\ rf_can' = Some(can_refund_htlc(rf_args[1]))
    /\ UNCHANGED <<rf_args, rf_tx>>
    /\ UNCHANGED notRf

RfSendTakerRefundsPayment ==
    /\ rf_tx = None
    /\ rf_args[1].side = "taker"
    /\ \E r \in send_refunds_payment(rf_args[1],
                    send_taker_refunds_payment_redeem_script(
                        Pub(1), rf_args[1].time_lock, rf_args[1].other_pub, Bytes(20, 7))) :
          rf_tx' = Some(r)
    /\ UNCHANGED <<rf_args, rf_can>>
    /\ UNCHANGED notRf

RfSendMakerRefundsPayment ==
    /\ rf_tx = None
    /\ rf_args[1].side = "maker"
    /\ \E r \in send_refunds_payment(rf_args[1],
                    send_maker_refunds_payment_redeem_script(
                        Pub(1), rf_args[1].time_lock, rf_args[1].other_pub, Bytes(20, 7))) :
          rf_tx' = Some(r)
    /\ UNCHANGED <<rf_args, rf_can>>
    /\ UNCHANGED notRf

NextRefund == CanRefundHtlc \/ RfSendTakerRefundsPayment \/ RfSendMakerRefundsPayment

SpecRefund == InitRefund /\ [][NextRefund]_vars

RfBuilt == IsSome(rf_tx) /\ rf_tx[1].status = "Ok"

\* C26: every refund transaction send_taker_refunds_payment or
\* send_maker_refunds_payment builds has a lock_time at or above the time
\* lock of the HTLC and the input sequence SEQUENCE_FINAL - 1, which is not
\* final; it takes the branch of the redeem script that checks the time lock
C26_RefundLockTimeAndSequence ==
    RfBuilt
        => /\ rf_tx[1].lock_time >= rf_args[1].time_lock
           /\ rf_tx[1].sequence = <<254, 255, 255, 255>>
           /\ rf_tx[1].sequence # SEQUENCE_FINAL
           /\ rf_tx[1].script_data = <<OP_1>>
           /\ rf_tx[1].redeem_script[1] = Op(OP_IF)
           /\ rf_tx[1].redeem_script[2] = Push(to_le_bytes(rf_args[1].time_lock))
           /\ rf_tx[1].redeem_script[3] = Op(OP_CHECKLOCKTIMEVERIFY)

\* a refund built while the chain is still behind the time lock of the HTLC
C26_Witness ==
    /\ RfBuilt
    /\ rf_args[1].coin.ticker = "BTC"
    /\ rf_args[1].send_mtp[1] < rf_args[1].time_lock
    /\ rf_tx[1].lock_time = rf_args[1].time_lock

\* the lock time the refund of the HTLC gets, the requests answered
RfLockTime(a) == p2sh_tx_locktime(a.coin.ticker, a.now, a.mtp[2], a.time_lock).lock_time

RfCanRefundNowOnlyWhenDue ==
    (IsSome(rf_can) /\ rf_can[1].status = "CanRefundNow")
        => /\ rf_args[1].now >= rf_args[1].time_lock
           /\ RfLockTime(rf_args[1]) >= rf_args[1].time_lock
           /\ rf_args[1].time_lock < rf_args[1].mtp[1][1]
           /\ RfLockTime(rf_args[1]) < rf_args[1].mtp[1][1]

\* C27 as stated: CanRefundNow is returned only when the clock is at or
\* past the time lock and the refund lock time, never below the time lock,
\* is below the median time past; every other return is HaveToWait of at
\* least 3600 seconds
C27_CanRefundNowOrHaveToWait ==
    /\ RfCanRefundNowOnlyWhenDue
    /\ (IsSome(rf_can) /\ rf_can[1].status # "CanRefundNow")
           => (rf_can[1].status = "HaveToWait" /\ rf_can[1].wait >= 3600)

\* C27 amended: the same, every other return being HaveToWait of at least
\* 3600 seconds unless a get_current_mtp request fails: then, the clock at
\* or past the time lock, the error of the RPC is returned
C27_CanRefundNowOrHaveToWaitOrRpcError ==
    /\ RfCanRefundNowOnlyWhenDue
    /\ (IsSome(rf_can) /\ rf_can[1].status \notin {"CanRefundNow", "Rpc"})
           => (rf_can[1].status = "HaveToWait" /\ rf_can[1].wait >= 3600)
    /\ (IsSome(rf_can) /\ rf_can[1].status = "Rpc")
           => /\ rf_args[1].now >= rf_args[1].time_lock
              /\ \/ ~IsSome(rf_args[1].mtp[1])
                 \/ rf_args[1].coin.ticker # "KMD" /\ ~IsSome(rf_args[1].mtp[2])
    /\ (IsSome(rf_can) /\ rf_args[1].now < rf_args[1].time_lock)
           => rf_can[1] = HaveToWait(Max2(rf_args[1].time_lock - rf_args[1].now + 1, 3600))

\* the clock is past the time lock but the median time past is not: the
\* refund has to wait
C27_Witness ==
    /\ IsSome(rf_can)
    /\ rf_can[1].status = "HaveToWait"
    /\ rf_args[1].now >= rf_args[1].time_lock
    /\ rf_can[1].wait > 3600

(***************************************************************************)
(* RefreshedExternalResource: tick and the completion of the sync futures  *)
(***************************************************************************)
\* the clock stops here
MaxClock == 9
\* no more sync futures than this are started
MaxSyncs == 3

RrTasks == {"task-1", "task-2"}

\* RefreshedExternalResource::new: last_start is 0 and the shelf is empty;
\* timeout_sec is at least every_n_sec
InitRefreshed ==
    /\ rr_now \in 3..4
    /\ rr_last_start = 0
    /\ rr_shelf = None
    /\ rr_syncs = <<>>
    /\ rr_tick = [t \in RrThreads |-> None]
    /\ rr_listeners = {}
    /\ rr_notified = {}
    /\ CoreIdle /\ MidIdle /\ CiIdle /\ HlIdle /\ KaIdle /\ RfIdle /\ PmIdle /\ LoIdle

every_n_sec == 1
timeout_sec == Max2(2, every_n_sec)

\* time passes
RrPass ==
    /\ rr_now < MaxClock
    /\ rr_now' = rr_now + 1
    /\ UNCHANGED <<rr_last_start, rr_shelf, rr_syncs, rr_tick, rr_listeners, rr_notified>>
    /\ UNCHANGED notRr

\* add_listeners
RrAddListeners(tasks) ==
    /\ tasks # {}
    /\ tasks \cap (rr_listeners \cup rr_notified) = {}
    /\ rr_listeners' = rr_listeners \cup tasks
    /\ UNCHANGED <<rr_now, rr_last_start, rr_shelf, rr_syncs, rr_tick, rr_notified>>
    /\ UNCHANGED notRr

\* tick, its reads: now_float, the time of the shelf and last_start
RrTickRead(t) ==
    /\ rr_tick[t] = None
    /\ rr_now < MaxClock
    /\ rr_tick' = [rr_tick EXCEPT ![t] =
                      Some([now |-> rr_now,
                            last_finish |-> IF IsSome(rr_shelf) THEN rr_shelf[1].time ELSE 0,
                            last_start |-> rr_last_start])]
    /\ rr_now' = rr_now + 1
    /\ UNCHANGED <<rr_last_start, rr_shelf, rr_syncs, rr_listeners, rr_notified>>
    /\ UNCHANGED notRr

\* tick decides that a sync is due
RrSyncDue(r) ==
    \/ r.now - r.last_start > timeout_sec
    \/ r.last_finish > r.last_start /\ r.now - r.last_start > every_n_sec

\* tick, the rest of it: when a sync is due last_start is stored and a new
\* sync future is spawned, the running ones left running
RrTickStart(t) ==
    /\ IsSome(rr_tick[t])
    /\ IF RrSyncDue(rr_tick[t][1])
       THEN /\ Len(rr_syncs) < MaxSyncs
            /\ rr_last_start' = rr_tick[t][1].now
            /\ rr_syncs' = Append(rr_syncs, [start |-> rr_tick[t][1].now, done |-> FALSE])
       ELSE UNCHANGED <<rr_last_start, rr_syncs>>
    /\ rr_tick' = [rr_tick EXCEPT ![t] = None]
    /\ UNCHANGED <<rr_now, rr_shelf, rr_listeners, rr_notified>>
    /\ UNCHANGED notRr

\* the closure chained to the sync future decides to fill the shelf
RrShelfAccepts(start, shelf) ==
    start > (IF IsSome(shelf) THEN shelf[1].time ELSE 0)

\* sync future i resolves: under the lock of the shelf its result is put on
\* the shelf, with the time of the clock, when the time tick started it at
\* is above the time of the shelf; then the listeners are notified and
\* removed
RrSyncCompletes(i) ==
    /\ ~rr_syncs[i].done
    /\ rr_now < MaxClock
    /\ rr_syncs' = [rr_syncs EXCEPT ![i].done = TRUE]
    /\ IF RrShelfAccepts(rr_syncs[i].start, rr_shelf)
       THEN /\ rr_shelf' = Some([time |-> rr_now, result |-> i])
            /\ rr_notified' = rr_notified \cup rr_listeners
            /\ rr_listeners' = {}
       ELSE UNCHANGED <<rr_shelf, rr_listeners, rr_notified>>
    /\ rr_now' = rr_now + 1
    /\ UNCHANGED <<rr_last_start, rr_tick>>
    /\ UNCHANGED notRr

NextRefreshed ==
    \/ RrPass
    \/ \E tasks \in SUBSET RrTasks : RrAddListeners(tasks)
    \/ \E t \in RrThreads : RrTickRead(t)
    \/ \E t \in RrThreads : RrTickStart(t)
    \/ \E i \in 1..Len(rr_syncs) : RrSyncCompletes(i)

SpecRefreshed == InitRefreshed /\ [][NextRefreshed]_vars

\* the syncs that have resolved
RrCompleted == {i \in 1..Len(rr_syncs) : rr_syncs[i].done}

\* C30: shelf updates are never applied out of order: whatever the order of
\* the tick calls and of the completions, the shelf holds the result of the
\* most recently started sync among those that have completed
C30_ShelfHoldsLatestCompleted ==
    RrCompleted # {}
        => /\ IsSome(rr_shelf)
           /\ \A i \in RrCompleted : rr_syncs[i].start <= rr_syncs[rr_shelf[1].result].start

\* what does hold: a result on the shelf is only replaced by the result of
\* a sync started later
RrNeverOutOfOrder ==
    [][(IsSome(rr_shelf) /\ rr_shelf' # rr_shelf)
          => rr_syncs[rr_shelf'[1].result].start > rr_syncs[rr_shelf[1].result].start]_vars

(***************************************************************************)
(* Properties of process_msg: which messages reach which slot              *)
(***************************************************************************)
\* the slots of a message store
MsgSlots == {"negotiation", "negotiation_reply", "negotiated", "taker_fee", "maker_payment",
             "taker_payment"}

\* the slot of each message type and what the message puts there
MsgSlotOf(m) ==
    CASE m.variant = "Negotiation" -> "negotiation"
      [] m.variant = "NegotiationReply" -> "negotiation_reply"
      [] m.variant = "Negotiated" -> "negotiated"
      [] m.variant = "TakerFee" -> "taker_fee"
      [] m.variant = "MakerPayment" -> "maker_payment"
      [] m.variant = "TakerPayment" -> "taker_payment"

MsgPayloadOf(m) ==
    IF m.variant \in {"Negotiation", "NegotiationReply"} THEN m.negotiation
    ELSE IF m.variant = "Negotiated" THEN m.negotiated
    ELSE m.bytes

\* the topic is the uuid of a swap whose store is initialised and the
\* message is a swap message signed with the key the store accepts
MsgAccepted(msgs, c) ==
    /\ c.topic \in Uuids
    /\ c.msg.kind = "SwapMsg"
    /\ IsSome(msgs[c.topic])
    /\ msgs[c.topic][1].accept_only_from = c.msg.from

\* C28: process_msg stores a message only when its topic is the uuid of a
\* swap with an initialised store and its signer is the accept_only_from of
\* that store; otherwise every store is left as it is; an accepted message
\* changes the slot of its type and nothing else
C28_OnlyAcceptedSenderOwnSlot ==
    [][IsSome(pm_call')
          => \E c \in {pm_call'[1]} :
                IF ~MsgAccepted(swap_msgs, c)
                THEN swap_msgs' = swap_msgs
                ELSE /\ \A u \in Uuids \ {c.topic} : swap_msgs'[u] = swap_msgs[u]
                     /\ IsSome(swap_msgs'[c.topic])
                     /\ swap_msgs'[c.topic][1].accept_only_from
                            = swap_msgs[c.topic][1].accept_only_from
                     /\ \A slot \in MsgSlots \ {MsgSlotOf(c.msg.msg)} :
                           swap_msgs'[c.topic][1][slot] = swap_msgs[c.topic][1][slot]
                     /\ swap_msgs'[c.topic][1][MsgSlotOf(c.msg.msg)]
                            = Some(MsgPayloadOf(c.msg.msg))]_vars

\* a MakerPayment of the accepted peer was stored next to the Negotiation
\* stored before, the store of the other swap accepting another peer
C28_Witness ==
    /\ IsSome(pm_call)
    /\ pm_call[1].topic = "uuid-1"
    /\ pm_call[1].msg.kind = "SwapMsg"
    /\ pm_call[1].msg.msg.variant = "MakerPayment"
    /\ IsSome(swap_msgs["uuid-1"]) /\ IsSome(swap_msgs["uuid-2"])
    /\ swap_msgs["uuid-1"][1].accept_only_from = pm_call[1].msg.from
    /\ swap_msgs["uuid-2"][1].accept_only_from # pm_call[1].msg.from
    /\ swap_msgs["uuid-1"][1].maker_payment = Some(pm_call[1].msg.msg.bytes)
    /\ IsSome(swap_msgs["uuid-1"][1].negotiation)

(***************************************************************************)
(* Specification SpecUnspents: one list_unspent_ordered call, the listing  *)
(* of the daemon and the recently spent outpoints chosen freely            *)
(***************************************************************************)
\* an UnspentInfo: its outpoint, its value and the height the daemon gives
\* it, None while it is not in a block
UnspentInfo(outpoint, value, height) == [outpoint |-> outpoint, value |-> value, height |-> height]

\* what the daemon may list
LoListings ==
    SUBSET {UnspentInfo(1, 20, Some(100)), UnspentInfo(2, 50, Some(100)),
            UnspentInfo(3, 70, None), UnspentInfo(4, 20, Some(90)),
            UnspentInfo(5, 80, None), UnspentInfo(9, 50, Some(101))}

\* what the coin may remember: a transaction that spent outpoint 1, its
\* change outpoint 9 not in a block when it was sent
LoCaches == SUBSET {[inputs |-> {1}, outputs |-> {UnspentInfo(9, 50, None)}]}

LoErr == [status |-> "Rpc", unspents |-> <<>>]
LoOk(unspents) == [status |-> "Ok", unspents |-> unspents]

InitUnspents ==
    /\ lo_listed \in LoListings
    /\ lo_cache \in LoCaches
    /\ lo_result = None
    /\ CoreIdle /\ MidIdle /\ CiIdle /\ HlIdle /\ KaIdle /\ RfIdle /\ RrIdle /\ PmIdle

\* list_unspent_ordered: the list_unspent request fails, or its answer goes
\* through the cache, is sorted by value and deduplicated
ListUnspentOrdered ==
    /\ lo_result = None
    /\ \E ok \in BOOLEAN :
          IF ok
          THEN \E unspents \in list_unspent_ordered(lo_listed, lo_cache) :
                  lo_result' = Some(LoOk(unspents))
          ELSE lo_result' = Some(LoErr)
    /\ UNCHANGED <<lo_listed, lo_cache>>
    /\ UNCHANGED notLo

NextUnspents == ListUnspentOrdered

SpecUnspents == InitUnspents /\ [][NextUnspents]_vars

LoAscending(unspents) ==
    \A i \in 1..Len(unspents) : \A j \in 1..Len(unspents) :
        i < j => unspents[i].value <= unspents[j].value

LoOutpointsDistinct(unspents) ==
    \A i \in 1..Len(unspents) : \A j \in 1..Len(unspents) :
        i # j => unspents[i].outpoint # unspents[j].outpoint

\* C29: the list list_unspent_ordered returns is ascending by value and no
\* two of its entries have the same outpoint, whatever the daemon lists and
\* the cache holds
C29_SortedNoDuplicateOutpoints ==
    (IsSome(lo_result) /\ lo_result[1].status = "Ok")
        => /\ LoAscending(lo_result[1].unspents)
           /\ LoOutpointsDistinct(lo_result[1].unspents)

\* what does hold: the list is ascending by value and no two neighbours of
\* it have the same outpoint
LoSortedNoDuplicateNeighbours ==
    (IsSome(lo_result) /\ lo_result[1].status = "Ok")
        => /\ LoAscending(lo_result[1].unspents)
           /\ \A i \in 1..(Len(lo_result[1].unspents) - 1) :
                 lo_result[1].unspents[i].outpoint # lo_result[1].unspents[i + 1].outpoint

====
